---- MODULE Spec2Model ----
(***************************************************************************)
(* A model of the validator-tracker scripts: the batched eth_getLogs       *)
(* fetcher with endpoint rotation and batch splitting, the ShareMinted     *)
(* decoders, and the net-stake aggregation and ranking.                    *)
(***************************************************************************)
EXTENDS Integers, Sequences, FiniteSets, TLC

VARIABLES
    \* ---- log fetcher (fetch-active-delegators.js, part_001) ----
    fetcher,        \* which fetcher class runs
    batchSize,      \* this.batchSize / the batchSize default parameter
    fromBlock,      \* the range main asks fetchLogs for
    toBlock,
    pc,             \* position of main()
    preCalls,       \* main's RPC calls completed before fetchLogs
    rpcEndpoint,    \* this.rpcEndpoint, as an index into PUBLIC_RPC_ENDPOINTS
    rpcMethod,      \* the rpcCall in flight, "none" when there is none
    retryCount,     \* rpcCall's retryCount parameter
    stack,          \* the fetchLogs activations, innermost last
    mainLogs,       \* main's `logs`, NoLogs until fetchLogs has returned
    exitCode,       \* -1 while running
    fileWritten,
    rejectsLeft,    \* too-large rejections the provider may still answer
    \* ---- history of the run (not read by the program) ----
    tried,          \* endpoints the call in flight has been sent to, in order
    sawTooLarge,    \* the call in flight was rejected as too large at least once
    sawOther,       \* the call in flight failed with another error at least once
    lastCall,       \* how the last finished eth_getLogs call ended
    lastError,      \* the error the last finished call threw, "none" if it returned
    thrownDepth,    \* number of fetchLogs activations an error unwound, 0 if none
    maxDepth,       \* deepest nesting of fetchLogs activations so far
    queries,        \* the ranges of the eth_getLogs calls that succeeded, in order
    anyError,       \* some request of the run was answered with an error
    \* ---- aggregation and ranking (part_005, the two main()s) ----
    report,         \* which ranking runs: "delegators", "unbonds" or "recent"
    allDelegations, \* the decoded delegation events, in arrival order
    allUnbonds,     \* the unbond events, in arrival order
    ranked,         \* the ranking has been computed
    limit,          \* the requested top-N
    addressStakes,  \* Object.values(addressStakes) after the net stakes are computed
    ranking,        \* the list the operation returns
    \* ---- ShareMinted decoders ----
    logData,        \* event.data / log.data: the characters of "0x" and the slots
    decoder,        \* the decoder that has read the log, "none" before
    amountWei,      \* the BigInt it decoded, as its hex digits without leading zeros
    \* ---- batch processing of raw logs ----
    processor,      \* the function whose loop processes the batch
    rawLogs,        \* the raw logs of the response, in order
    cursor,         \* number of logs the loop is done with
    processedEvents, \* the events pushed so far, then the list returned
    batchReturned,  \* the loop is over and the list is returned
    batchRaised,    \* an error left the loop and reached the caller
    raisedAt,       \* history: the logs on which decoding threw
    skippedAt,      \* history: the logs skipped as older than the cutoff
    \* ---- address classification (DelegatorFilter, FundFlowTracker) ----
    classifier,     \* the class whose instance classifies
    arkhamKey,      \* FundFlowTracker: an Arkham API key is configured
    labelCache,     \* addressClassificationCache / addressLabelCache: <<key, result>> pairs
    calls,          \* history: the classify calls made and what they returned
    filterOptions,  \* the exclude options of the last filterDelegatorAddresses call
    filterResults,  \* what filterDelegatorAddresses returned, NoResults before
    filterStatistics,   \* results.statistics of that call, NoStatistics before
    \* ---- MetaSleuthVisualizer.createBatchVisualizations ----
    vizKey,         \* a MetaSleuth API key is configured
    vizCount,       \* addresses.length
    vizBatchSize,   \* Math.min(maxConcurrency, 5)
    vizBatchFrom,   \* index of the first address of the batch in progress, 0 before
    vizTasks,       \* per address: where its createVisualizationForAddress stands
    vizSuccessful,  \* results.successful, as address indexes
    vizFailed,      \* results.failed, as address indexes
    vizReturned,    \* createBatchVisualizations has returned results
    \* ---- the operations that fetch delegation events from the indexer ----
    operation,      \* which of the three runs
    etherscanApiKey, \* an Etherscan API key is configured
    currentBlock,   \* the chain's head when the head request is answered
    elapsedSeconds, \* now - cutoffTimestamp (hours * 3600 in fetchRecentDelegations)
    awaiting,       \* the request the operation awaits, "start" before, "returned" after
    requests,       \* history: the network requests issued so far, in order
    lookup,         \* history: how the block-by-timestamp lookup ended, "none" before
    startBlock,     \* <<fromBlock>> of the log query once it is issued, <<>> before
    fetched,        \* what the operation returned: "none", "empty" or "list"
    \* ---- the CLI commands biggest-unbonds and analyze, and runCompleteAnalysis ----
    command,        \* which entry point runs
    charts,         \* options.charts / options.generateCharts
    exportOption,   \* biggest-unbonds: options.export
    step,           \* the call the command awaits, "start" before, "end" after
    validatorsLeft, \* validators the loop of fetchAllUnbondsAcrossValidators has to visit
    unbondRequests, \* history: per-validator unbond requests sent
    unbondFailures, \* history: per-validator unbond requests that failed
    unbondCount,    \* unbond events collected inside the window
    delegationCount, \* tracker.delegationData.length
    failed,         \* history: the fetches and operations that failed
    errorPrinted,   \* console.error was called with an error message
    completed,      \* the completion message was printed
    listed,         \* the individual delegator addresses were obtained
    exitStatus,     \* the exit code, -1 while running or when the promise settles
    raised,         \* runCompleteAnalysis rejected
    \* ---- EthereumDelegationTracker.formatUnits ----
    negative,       \* value < 0n
    val,            \* the magnitude of value, as its decimal digits without leading zeros
    formatted,      \* the string formatUnits returned, <<>> before the call
    \* ---- ValidatorTracker.runFullAnalysis: fetch, filter, analyzeStakeChanges ----
    trackerOptions, \* filterExchanges, filterDefi, filterInstitutional as exclude options
    trackerStep,    \* the call of runFullAnalysis that comes next
    unbondData,     \* this.unbondData: the unbond events, each with user and amountPol
    delegationData, \* this.delegationData
    trackerResults, \* this.filterResults: the entries the filter pushed, NoResults if null
    filteredDelegators, \* this.filteredDelegators
    analysis,       \* what analyzeStakeChanges returned, NoAnalysis before
    \* ---- fund-flow tracking: the combined and delegator-tracking commands ----
    flowCommand,    \* "combined" or "delegator-tracking"
    thresholdOption, \* --threshold, after parseFloat
    maxAddressesOption, \* --max-addresses, after parseInt
    addressCount,   \* unbond addresses found / addresses given on the command line
    toAnalyze,      \* addressesToAnalyze.length, -1 before the slice
    flowIndex,      \* i of generateFlowReport's loop
    transfers,      \* history: the transactions the explorers listed, per address
    allMovements,   \* allMovements of generateFlowReport
    tracked,        \* history: the addresses trackAddressOutflows was called for
    flowReport,     \* fullReport once it is written, NoReport before
    \* delegation summary
    summaryEvents,      \* the events fetchDelegationEvents answered
    summary,            \* the value getDelegationSummary returned
    summaryStep,        \* "start", "returned" or "tested"
    testOutcome,        \* what testEthereumDelegationTracking did with the summary
    \* time window of the delegation events
    windowOp,       \* "fetchDelegationEvents" or "fetchAllDelegatorsAcrossValidators"
    windowStep,     \* "resolve", "getLogs", "process" or "returned"
    windowFrom,     \* how fromBlock was found: "resolved", "estimated" or "genesis"
    windowLogs,     \* the logs Etherscan answered, each with the time of its block
    windowCursor,   \* logs the loop has been through
    windowEvents    \* the events pushed: the log's index and the timestamp reported

fetchVars == <<fetcher, batchSize, fromBlock, toBlock, pc, preCalls, rpcEndpoint,
               rpcMethod, retryCount, stack, mainLogs, exitCode, fileWritten,
               rejectsLeft, tried, sawTooLarge, sawOther, lastCall, lastError,
               thrownDepth, maxDepth, queries, anyError>>

rankVars == <<report, allDelegations, allUnbonds, ranked, limit, addressStakes, ranking>>

decodeVars == <<logData, decoder, amountWei>>

batchVars == <<processor, rawLogs, cursor, processedEvents, batchReturned, batchRaised,
               raisedAt, skippedAt>>

classifyVars == <<classifier, arkhamKey, labelCache, calls, filterOptions, filterResults,
                   filterStatistics>>

vizVars == <<vizKey, vizCount, vizBatchSize, vizBatchFrom, vizTasks, vizSuccessful,
             vizFailed, vizReturned>>

lookupVars == <<operation, etherscanApiKey, currentBlock, elapsedSeconds, awaiting,
                requests, lookup, startBlock, fetched>>

cliVars == <<command, charts, exportOption, step, validatorsLeft, unbondRequests,
             unbondFailures, unbondCount, delegationCount, failed, errorPrinted,
             completed, listed, exitStatus, raised>>

unitsVars == <<negative, val, formatted>>

analysisVars == <<trackerOptions, trackerStep, unbondData, delegationData,
                  trackerResults, filteredDelegators, analysis>>

flowVars == <<flowCommand, thresholdOption, maxAddressesOption, addressCount, toAnalyze,
              flowIndex, transfers, allMovements, tracked, flowReport>>

summaryVars == <<summaryEvents, summary, summaryStep, testOutcome>>

windowVars == <<windowOp, windowStep, windowFrom, windowLogs, windowCursor,
                windowEvents>>

vars == <<fetchVars, rankVars, decodeVars, batchVars, classifyVars, vizVars, lookupVars, cliVars, unitsVars, analysisVars, flowVars, summaryVars, windowVars>>

\* what a run of one part leaves alone
notFetch == <<rankVars, decodeVars, batchVars, classifyVars, vizVars, lookupVars, cliVars, unitsVars, analysisVars, flowVars, summaryVars, windowVars>>
notRank == <<fetchVars, decodeVars, batchVars, classifyVars, vizVars, lookupVars, cliVars, unitsVars, analysisVars, flowVars, summaryVars, windowVars>>
notDecode == <<fetchVars, rankVars, batchVars, classifyVars, vizVars, lookupVars, cliVars, unitsVars, analysisVars, flowVars, summaryVars, windowVars>>
notBatch == <<fetchVars, rankVars, decodeVars, classifyVars, vizVars, lookupVars, cliVars, unitsVars, analysisVars, flowVars, summaryVars, windowVars>>
notClassify == <<fetchVars, rankVars, decodeVars, batchVars, vizVars, lookupVars, cliVars, unitsVars, analysisVars, flowVars, summaryVars, windowVars>>
notViz == <<fetchVars, rankVars, decodeVars, batchVars, classifyVars, lookupVars, cliVars, unitsVars, analysisVars, flowVars, summaryVars, windowVars>>
notLookup == <<fetchVars, rankVars, decodeVars, batchVars, classifyVars, vizVars, cliVars, unitsVars, analysisVars, flowVars, summaryVars, windowVars>>
notCli == <<fetchVars, rankVars, decodeVars, batchVars, classifyVars, vizVars, lookupVars, unitsVars, analysisVars, flowVars, summaryVars, windowVars>>
notUnits == <<fetchVars, rankVars, decodeVars, batchVars, classifyVars, vizVars, lookupVars, cliVars, analysisVars, flowVars, summaryVars, windowVars>>
notAnalysis == <<fetchVars, rankVars, decodeVars, batchVars, classifyVars, vizVars, lookupVars, cliVars, unitsVars, flowVars, summaryVars, windowVars>>
notFlow == <<fetchVars, rankVars, decodeVars, batchVars, classifyVars, vizVars, lookupVars, cliVars, unitsVars, analysisVars, summaryVars, windowVars>>
notSummary == <<fetchVars, rankVars, decodeVars, batchVars, classifyVars, vizVars, lookupVars, cliVars, unitsVars, analysisVars, flowVars, windowVars>>
notWindow == <<fetchVars, rankVars, decodeVars, batchVars, classifyVars, vizVars, lookupVars, cliVars, unitsVars, analysisVars, flowVars, summaryVars>>

-----------------------------------------------------------------------------
(* Bounds of the model *)

MaxBlocks == 4        \* small ranges are 1..MaxBlocks blocks long
MaxBatch == 3         \* small batch sizes are 1..MaxBatch
MaxRejects == 3       \* too-large rejections per run
MaxQueries == 8       \* cap on the eth_getLogs calls of a run that succeed
MaxEvents == 4        \* delegation and unbond events of a ranking run
MaxTop == 2           \* the requested top-N is 0..MaxTop
MaxSlots == 2         \* a log's data holds 1..MaxSlots slots
MaxLogs == 3          \* a batch holds 0..MaxLogs raw logs
MaxCalls == 2         \* direct classify calls on one instance
MaxAddresses == 2     \* addresses handed to filterDelegatorAddresses
MaxVizAddresses == 4  \* addresses handed to createBatchVisualizations
MaxValidators == 3    \* validators the staking API lists
MaxUnbonds == 1       \* events inside the window in one answer
MaxIntegerDigits == 2 \* digits of the integer part of a formatted value
MaxTrackerEvents == 3 \* unbond and delegation events of one tracked validator
MaxFlowAddresses == 11 \* unbond addresses found by the combined command
MaxTransfers == 2     \* transactions the explorers list in one run

(* Program constants *)

NumEndpoints == 5     \* PUBLIC_RPC_ENDPOINTS.length
DefaultBatchSize == 5000
DefaultMaxConcurrency == 3   \* createBatchVisualizations: maxConcurrency = 3
MaxVizBatch == 5      \* Math.min(maxConcurrency, 5)
Decimals == 18        \* formatUnits(value, decimals = 18)
DefaultThresholdOption == 1      \* --threshold <number>, default '1'
DefaultMaxAddressesOption == 20  \* --max-addresses <number>, default '20'
DefaultAmountThreshold == 10     \* trackAddressOutflows(address, amountThreshold = 10.0)
ReportAddressCap == 10           \* Math.min(unbonderAddresses.length, 10)
SlotChars == 64       \* hex characters of a 32-byte slot: dataWithoutPrefix.slice(0, 64)
PrefixedSlotChars == 66   \* event.data.slice(0, 66): "0x" + 64 hex chars

\* parseInt of a string that is no number; Math.max(1, NaN) is NaN; undefined + 1 is NaN
NaN == -1

Min(a, b) == IF a <= b THEN a ELSE b
Max(a, b) == IF a >= b THEN a ELSE b

-----------------------------------------------------------------------------
(* The provider's answers *)

Fetchers == {"ActiveDelegatorsFetcher", "DirectRPCDelegatorFetcher", "SpecificDatesFetcher"}

TooLargeMessages == {"query returned more than 10000 results", "exceed maximum block range"}
OtherMessages == {"timeout of 30000ms exceeded"}
ErrorMessages == TooLargeMessages \cup OtherMessages

\* error.message.includes('query returned more than') || error.message.includes('exceed maximum')
IsTooLarge(msg) == msg \in TooLargeMessages

\* main's `logs` before fetchLogs has returned: a chunk no query returns
NoLogs == <<[from |-> 0, to |-> -1]>>

\* the logs a successful eth_getLogs over [a, b] returns: one chunk, empty for an
\* inverted range
LogsOf(a, b) == IF a <= b THEN <<[from |-> a, to |-> b]>> ELSE <<>>

-----------------------------------------------------------------------------
(* fetchLogs *)

Top == stack[Len(stack)]

\* a batch one block too long: the "- 1" forgotten
CurrentToOneTooFar(f) == Min(f.currentFrom + f.batchSize, f.toBlock)

\* const currentTo = Math.min(currentFrom + batchSize - 1, toBlock)
CurrentTo(f) == Min(f.currentFrom + f.batchSize - 1, f.toBlock)

\* const halfBatch = Math.floor((currentTo - currentFrom + 1) / 2)
HalfBatch(cf, ct) == (ct - cf + 1) \div 2

\* the batch size of a recursive call: DirectRPCDelegatorFetcher passes halfBatch,
\* the other two keep this.batchSize
ChildBatchSize(f, half) ==
    IF fetcher = "DirectRPCDelegatorFetcher" THEN half ELSE f.batchSize

Frame(from, to, bs) ==
    [fromBlock |-> from, toBlock |-> to, batchSize |-> bs, currentFrom |-> from,
     allLogs |-> <<>>, awaiting |-> "none", firstHalf |-> <<>>]

\* this.fetchLogs(currentFrom, currentFrom + halfBatch - 1 [, halfBatch])
FirstHalfFrame(f) ==
    LET half == HalfBatch(f.currentFrom, CurrentTo(f))
    IN Frame(f.currentFrom, f.currentFrom + half - 1, ChildBatchSize(f, half))

\* a second half that starts one block late and so leaves a block out
SecondHalfFrameSkipsBlock(f) ==
    LET half == HalfBatch(f.currentFrom, CurrentTo(f))
    IN Frame(f.currentFrom + half + 1, CurrentTo(f), ChildBatchSize(f, half))

\* this.fetchLogs(currentFrom + halfBatch, currentTo [, halfBatch])
SecondHalfFrame(f) ==
    LET half == HalfBatch(f.currentFrom, CurrentTo(f))
    IN Frame(f.currentFrom + half, CurrentTo(f), ChildBatchSize(f, half))

\* currentFrom = currentTo + 1
NextFrom(f) == CurrentTo(f) + 1

ReplaceTop(f) == [stack EXCEPT ![Len(stack)] = f]

-----------------------------------------------------------------------------
(* Inputs *)

FromBlocks == {1, 100}

\* a configured small batch over a small range, or the shipped batch size of 5000
Scenarios ==
    {[n |-> n, B |-> b] : n \in 1..MaxBlocks, b \in 1..MaxBatch}
    \cup {[n |-> n, B |-> DefaultBatchSize] :
            n \in {1, DefaultBatchSize, DefaultBatchSize + 1, 12000}}

\* main's RPC calls before fetchLogs: getBlockFromTimestamp (eth_blockNumber,
\* eth_getBlockByNumber), then getCurrentBlock (eth_blockNumber)
PreCallMethods == <<"eth_blockNumber", "eth_getBlockByNumber", "eth_blockNumber">>

FetchStart ==
    /\ fetcher \in Fetchers
    /\ \E sc \in Scenarios, fb \in FromBlocks :
          /\ batchSize = sc.B
          /\ fromBlock = fb
          /\ toBlock = fb + sc.n - 1
    /\ pc = "resolve"
    /\ preCalls = 0
    /\ rpcEndpoint = 0
    /\ rpcMethod = "none"
    /\ retryCount = 0
    /\ stack = <<>>
    /\ mainLogs = NoLogs
    /\ exitCode = -1
    /\ fileWritten = FALSE
    /\ rejectsLeft = MaxRejects
    /\ tried = <<>>
    /\ sawTooLarge = FALSE
    /\ sawOther = FALSE
    /\ lastCall = "none"
    /\ lastError = "none"
    /\ thrownDepth = 0
    /\ maxDepth = 0
    /\ queries = <<>>
    /\ anyError = FALSE

-----------------------------------------------------------------------------
(* rpcCall and its callers *)

\* a caller awaits this.rpcCall(method, params): retryCount = 0
BeginCall(method) ==
    /\ rpcMethod' = method
    /\ retryCount' = 0
    /\ tried' = <<>>
    /\ sawTooLarge' = FALSE
    /\ sawOther' = FALSE
    /\ lastError' = "none"

\* main: fetcher.getBlockFromTimestamp(cutoffTimestamp), fetcher.getCurrentBlock()
MainResolveBlocks ==
    /\ pc = "resolve"
    /\ rpcMethod = "none"
    /\ preCalls < Len(PreCallMethods)
    /\ BeginCall(PreCallMethods[preCalls + 1])
    /\ UNCHANGED <<fetcher, batchSize, fromBlock, toBlock, pc, preCalls, rpcEndpoint,
                   stack, mainLogs, exitCode, fileWritten, rejectsLeft, lastCall,
                   thrownDepth, maxDepth, queries, anyError>>

\* fetchLogs: the loop issues the query of the next batch
FetchLogsIssue ==
    /\ pc = "fetchLogs"
    /\ rpcMethod = "none"
    /\ stack # <<>>
    /\ Top.awaiting = "none"
    /\ Top.currentFrom <= Top.toBlock
    /\ Len(queries) < MaxQueries
    /\ BeginCall("eth_getLogs")
    /\ UNCHANGED <<fetcher, batchSize, fromBlock, toBlock, pc, preCalls, rpcEndpoint,
                   stack, mainLogs, exitCode, fileWritten, rejectsLeft, lastCall,
                   thrownDepth, maxDepth, queries, anyError>>

\* the frame after allLogs.push(...logs); currentFrom = currentTo + 1
AfterBatch(f) ==
    [f EXCEPT !.allLogs = f.allLogs \o LogsOf(f.currentFrom, CurrentTo(f)),
              !.currentFrom = NextFrom(f)]

\* the endpoint answers with a result: rpcCall returns response.data.result
RpcOk ==
    /\ rpcMethod # "none"
    /\ tried' = Append(tried, rpcEndpoint)
    /\ rpcMethod' = "none"
    /\ IF rpcMethod = "eth_getLogs"
       THEN /\ stack' = ReplaceTop(AfterBatch(Top))
            /\ queries' = Append(queries, [from |-> Top.currentFrom, to |-> CurrentTo(Top)])
            /\ lastCall' = "ok"
            /\ UNCHANGED <<pc, preCalls>>
       ELSE /\ preCalls' = preCalls + 1
            /\ IF preCalls + 1 = Len(PreCallMethods)
               THEN /\ pc' = "fetchLogs"
                    /\ stack' = <<Frame(fromBlock, toBlock, batchSize)>>
               ELSE UNCHANGED <<pc, stack>>
            /\ UNCHANGED <<queries, lastCall>>
    /\ maxDepth' = Max(maxDepth, Len(stack'))
    /\ UNCHANGED <<fetcher, batchSize, fromBlock, toBlock, rpcEndpoint, retryCount,
                   mainLogs, exitCode, fileWritten, rejectsLeft, sawTooLarge, sawOther,
                   lastError, thrownDepth, anyError>>

\* catch (error) in rpcCall: if (retryCount < PUBLIC_RPC_ENDPOINTS.length - 1)
CanRetry(rc) == rc < NumEndpoints - 1

\* this.rpcEndpoint = PUBLIC_RPC_ENDPOINTS[retryCount + 1]
NextEndpoint(ep, rc) == rc + 1

\* a catch that splits on every error and never rethrows
SplitsOnAnyError(msg) == TRUE

\* catch (error) in fetchLogs: split on a too-large message, rethrow otherwise
SplitsOn(msg) == IsTooLarge(msg)

\* the endpoint answers with an error (or times out): rpcCall's catch
RpcFail(msg) ==
    /\ rpcMethod # "none"
    /\ IsTooLarge(msg) => (rpcMethod = "eth_getLogs" /\ rejectsLeft > 0)
    /\ rejectsLeft' = IF IsTooLarge(msg) THEN rejectsLeft - 1 ELSE rejectsLeft
    /\ tried' = Append(tried, rpcEndpoint)
    /\ sawTooLarge' = (sawTooLarge \/ IsTooLarge(msg))
    /\ sawOther' = (sawOther \/ ~IsTooLarge(msg))
    /\ anyError' = TRUE
    /\ IF CanRetry(retryCount)
       THEN \* rotate and call again
            /\ rpcEndpoint' = NextEndpoint(rpcEndpoint, retryCount)
            /\ retryCount' = retryCount + 1
            /\ UNCHANGED <<rpcMethod, pc, stack, exitCode, lastCall, lastError,
                           thrownDepth>>
       ELSE \* throw error
            /\ rpcMethod' = "none"
            /\ lastError' = msg
            /\ UNCHANGED <<rpcEndpoint, retryCount>>
            /\ IF rpcMethod = "eth_getLogs" /\ SplitsOn(msg)
               THEN /\ stack' = Append(ReplaceTop([Top EXCEPT !.awaiting = "firstHalf"]),
                                       FirstHalfFrame(Top))
                    /\ lastCall' = "split"
                    /\ UNCHANGED <<pc, exitCode, thrownDepth>>
               ELSE \* the error leaves every fetchLogs activation and reaches
                    \* main's catch: console.error, process.exit(1)
                    /\ stack' = <<>>
                    /\ thrownDepth' = Len(stack)
                    /\ lastCall' = IF rpcMethod = "eth_getLogs" THEN "thrown" ELSE lastCall
                    /\ pc' = "exited"
                    /\ exitCode' = 1
    /\ maxDepth' = Max(maxDepth, Len(stack'))
    /\ UNCHANGED <<fetcher, batchSize, fromBlock, toBlock, preCalls, mainLogs,
                   fileWritten, queries>>

\* an activation's loop is over: return allLogs to the caller
FetchLogsReturn ==
    /\ pc = "fetchLogs"
    /\ rpcMethod = "none"
    /\ stack # <<>>
    /\ Top.awaiting = "none"
    /\ Top.currentFrom > Top.toBlock
    /\ IF Len(stack) = 1
       THEN /\ mainLogs' = Top.allLogs
            /\ stack' = <<>>
            /\ pc' = "fetched"
       ELSE LET p == stack[Len(stack) - 1]
                below == SubSeq(stack, 1, Len(stack) - 2)
            IN /\ IF p.awaiting = "firstHalf"
                  THEN stack' = below \o
                         <<[p EXCEPT !.firstHalf = Top.allLogs, !.awaiting = "secondHalf"],
                           SecondHalfFrame(p)>>
                  ELSE \* allLogs.push(...firstHalf, ...secondHalf); currentFrom = currentTo + 1
                       stack' = below \o
                         <<[p EXCEPT !.allLogs = p.allLogs \o p.firstHalf \o Top.allLogs,
                                     !.currentFrom = NextFrom(p),
                                     !.awaiting = "none",
                                     !.firstHalf = <<>>]>>
               /\ UNCHANGED <<mainLogs, pc>>
    /\ maxDepth' = Max(maxDepth, Len(stack'))
    /\ UNCHANGED <<fetcher, batchSize, fromBlock, toBlock, preCalls, rpcEndpoint,
                   rpcMethod, retryCount, exitCode, fileWritten, rejectsLeft, tried,
                   sawTooLarge, sawOther, lastCall, lastError, thrownDepth, queries,
                   anyError>>

\* main after fetchLogs returned: the validator and unbond requests, the ranking and
\* fs.writeJSON; a failure of the validator request reaches the same catch
MainFinish ==
    /\ pc = "fetched"
    /\ \E ok \in BOOLEAN :
          IF ok THEN /\ fileWritten' = TRUE
                     /\ exitCode' = 0
                     /\ pc' = "done"
                ELSE /\ exitCode' = 1
                     /\ pc' = "exited"
                     /\ UNCHANGED fileWritten
    /\ UNCHANGED <<fetcher, batchSize, fromBlock, toBlock, preCalls, rpcEndpoint,
                   rpcMethod, retryCount, stack, mainLogs, rejectsLeft, tried,
                   sawTooLarge, sawOther, lastCall, lastError, thrownDepth, maxDepth,
                   queries, anyError>>

NextFetch ==
    \/ MainResolveBlocks /\ UNCHANGED notFetch
    \/ FetchLogsIssue /\ UNCHANGED notFetch
    \/ RpcOk /\ UNCHANGED notFetch
    \/ \E msg \in ErrorMessages : RpcFail(msg) /\ UNCHANGED notFetch
    \/ FetchLogsReturn /\ UNCHANGED notFetch
    \/ MainFinish /\ UNCHANGED notFetch

-----------------------------------------------------------------------------
(* Aggregation and ranking *)

\* Addresses as the sources report them, in ascending order of their strings
\* (upper-case letters sort before lower-case ones)
AddressStrings == <<"0xAA", "0xaa", "0xbb">>

\* the strings of the model that have an upper-case letter, each with its lower-case
\* form
CaseFolds ==
    {<<"0xAA", "0xaa">>,
     <<"0x5E3346444010135322268a0CA24B70E5b1d0D52A",
       "0x5e3346444010135322268a0ca24b70e5b1d0d52a">>,
     <<"0X5E3346444010135322268A0CA24B70E5B1D0D52A",
       "0x5e3346444010135322268a0ca24b70e5b1d0d52a">>,
     <<"0X8F3CF7AD23CD3CADBD9735AFF958023239C6A063",
       "0x8f3cf7ad23cd3cadbd9735aff958023239c6a063">>,
     <<"0x00000000000000000000000000000000000000Ab",
       "0x00000000000000000000000000000000000000ab">>}

\* String.prototype.toLowerCase on these strings
ToLowerCase(str) ==
    IF \E f \in CaseFolds : f[1] = str
    THEN (CHOOSE f \in CaseFolds : f[1] = str)[2]
    ELSE str

\* who delegates to which validator in the ShareMinted logs, and who unbonds from
\* which validator in the staking API's records; the staking API reports the first
\* account in mixed case
DelegationSources == {<<"0xaa", 1>>, <<"0xaa", 2>>, <<"0xbb", 1>>}
UnbondSources == {<<"0xAA", 1>>, <<"0xAA", 2>>, <<"0xbb", 1>>}
\* amounts in POL, after the conversion from wei
DelegationAmounts == {50, 100, 200}
UnbondAmounts == {50, 80}

Reports == {"delegators", "unbonds", "recent"}

RankIdle ==
    /\ report = "none"
    /\ allDelegations = <<>>
    /\ allUnbonds = <<>>
    /\ ranked = FALSE
    /\ limit = 0
    /\ addressStakes = <<>>
    /\ ranking = <<>>

RankStart ==
    /\ report \in Reports
    /\ allDelegations = <<>>
    /\ allUnbonds = <<>>
    /\ ranked = FALSE
    /\ limit = 0
    /\ addressStakes = <<>>
    /\ ranking = <<>>

\* position of the record with this key in the insertion-ordered object, 0 if absent
StakeIndex(stakes, key) ==
    IF \E i \in 1..Len(stakes) : stakes[i].address = key
    THEN CHOOSE i \in 1..Len(stakes) : stakes[i].address = key
    ELSE 0

NewStake(key) ==
    [address |-> key, totalDelegated |-> 0, totalUnbonded |-> 0, netStake |-> 0,
     validators |-> <<>>]

NewValidator(id) == [validatorId |-> id, delegated |-> 0, unbonded |-> 0, netStake |-> 0]

\* if (!addressStakes[key]) addressStakes[key] = {...}
EnsureStake(stakes, key) ==
    IF StakeIndex(stakes, key) = 0 THEN Append(stakes, NewStake(key)) ELSE stakes

\* if (!addressStakes[key].validators[id]) addressStakes[key].validators[id] = {...}
EnsureValidator(validators, id) ==
    IF id \in DOMAIN validators THEN validators
    ELSE [v \in DOMAIN validators \cup {id} |->
            IF v = id THEN NewValidator(id) ELSE validators[v]]

\* allDelegations.forEach(event => ...): one delegation added to the totals
AddDelegationEvent(stakes, e) ==
    LET withKey == EnsureStake(stakes, e.address)
        i == StakeIndex(withKey, e.address)
        st == withKey[i]
        vals == EnsureValidator(st.validators, e.validatorId)
    IN [withKey EXCEPT ![i] =
          [st EXCEPT !.totalDelegated = @ + e.amount,
                     !.validators = [vals EXCEPT ![e.validatorId].delegated = @ + e.amount]]]

\* allUnbonds.forEach(event => ...): one unbond added to the totals
AddUnbondEvent(stakes, e) ==
    LET withKey == EnsureStake(stakes, e.address)
        i == StakeIndex(withKey, e.address)
        st == withKey[i]
        vals == EnsureValidator(st.validators, e.validatorId)
    IN [withKey EXCEPT ![i] =
          [st EXCEPT !.totalUnbonded = @ + e.amount,
                     !.validators = [vals EXCEPT ![e.validatorId].unbonded = @ + e.amount]]]

RECURSIVE AddDelegations(_, _)
AddDelegations(stakes, events) ==
    IF events = <<>> THEN stakes
    ELSE AddDelegations(AddDelegationEvent(stakes, Head(events)), Tail(events))

RECURSIVE AddUnbonds(_, _)
AddUnbonds(stakes, events) ==
    IF events = <<>> THEN stakes
    ELSE AddUnbonds(AddUnbondEvent(stakes, Head(events)), Tail(events))

\* a net stake that adds the unbonded amount instead of subtracting it
NetOfAdded(delegated, unbonded) == delegated + unbonded

\* stake.netStake = stake.totalDelegated - stake.totalUnbonded
NetOf(delegated, unbonded) == delegated - unbonded

\* a filter that lets a zero net stake through
IsPositiveOrZero(net) == net >= 0

\* .filter(v => v.netStake > 0)
IsPositive(net) == net > 0

RECURSIVE InsertDesc(_, _, _)
\* x put behind every element whose key is at least x's key
InsertDesc(sorted, x, field) ==
    IF sorted = <<>> THEN <<x>>
    ELSE IF Head(sorted)[field] >= x[field]
         THEN <<Head(sorted)>> \o InsertDesc(Tail(sorted), x, field)
         ELSE <<x>> \o sorted

\* a sort that leaves the list as it is
SortDescByNothing(s, field) == s

RECURSIVE SortDescBy(_, _)
\* .sort((a, b) => b[field] - a[field]): descending, and stable as Array.prototype.sort is
SortDescBy(s, field) ==
    IF s = <<>> THEN <<>>
    ELSE InsertDesc(SortDescBy(SubSeq(s, 1, Len(s) - 1), field), s[Len(s)], field)

RECURSIVE AscendingSeq(_)
\* the elements of a set of numbers in ascending order
AscendingSeq(S) ==
    IF S = {} THEN <<>>
    ELSE LET m == CHOOSE x \in S : \A y \in S : x <= y
         IN <<m>> \o AscendingSeq(S \ {m})

\* Object.values(stake.validators): validator ids are integer keys, which an object
\* lists in ascending numeric order
ValidatorValues(validators) ==
    LET ids == AscendingSeq(DOMAIN validators)
    IN [i \in 1..Len(ids) |-> validators[ids[i]]]

\* a breakdown that lists every validator, whatever its net stake
ValidatorDetailsUnfiltered(validators) ==
    LET values == ValidatorValues(validators)
        withNet == [i \in 1..Len(values) |->
                      [values[i] EXCEPT
                          !.netStake = NetOf(values[i].delegated, values[i].unbonded)]]
    IN SortDescBy(withNet, "netStake")

\* Object.values(stake.validators).map(v => { v.netStake = v.delegated - v.unbonded; return v })
\*     .filter(v => v.netStake > 0).sort((a, b) => b.netStake - a.netStake)
ValidatorDetails(validators) ==
    LET values == ValidatorValues(validators)
        withNet == [i \in 1..Len(values) |->
                      [values[i] EXCEPT
                          !.netStake = NetOf(values[i].delegated, values[i].unbonded)]]
    IN SortDescBy(SelectSeq(withNet, LAMBDA v : IsPositive(v.netStake)), "netStake")

\* Object.values(addressStakes).forEach(stake => ...): the net stakes, and the
\* validators object replaced by the validatorDetails array
WithNetStake(st) ==
    [address |-> st.address,
     totalDelegated |-> st.totalDelegated,
     totalUnbonded |-> st.totalUnbonded,
     netStake |-> NetOf(st.totalDelegated, st.totalUnbonded),
     validatorDetails |-> ValidatorDetails(st.validators)]

\* the address records of fetchAllDelegatorsAcrossValidators (and of the two main()s)
AddressStakes(delegations, unbonds) ==
    LET totals == AddUnbonds(AddDelegations(<<>>, delegations), unbonds)
    IN [i \in 1..Len(totals) |-> WithNetStake(totals[i])]

\* a slice that keeps one entry more than asked
SliceOneMore(s, n) == SubSeq(s, 1, Min(n + 1, Len(s)))

\* .slice(0, limit), for a limit >= 0
Slice(s, n) == SubSeq(s, 1, Min(n, Len(s)))

\* .map((entry, index) => ({ rank: index + 1, ...entry }))
WithRank(s) ==
    [i \in 1..Len(s) |->
        [f \in DOMAIN s[i] \cup {"rank"} |-> IF f = "rank" THEN i ELSE s[i][f]]]

\* Object.values(addressStakes).filter(stake => stake.netStake > 0)
\*     .sort((a, b) => b.netStake - a.netStake).slice(0, limit).map(rank)
TopDelegators(stakes, n) ==
    WithRank(Slice(SortDescBy(SelectSeq(stakes, LAMBDA st : IsPositive(st.netStake)),
                              "netStake"), n))

\* allUnbonds.sort((a, b) => b.amount - a.amount).slice(0, limit).map(rank)
BiggestUnbonds(unbonds, n) == WithRank(Slice(SortDescBy(unbonds, "amount"), n))

\* allDelegations.sort((a, b) => b.date - a.date); slice(0, limit).map(rank)
RecentDelegations(delegations, n) == WithRank(Slice(SortDescBy(delegations, "timestamp"), n))

EventsLeft == Len(allDelegations) + Len(allUnbonds) < MaxEvents

\* one ShareMinted log decoded and pushed: address: user.toLowerCase(). Logs arrive in
\* block order, so an event's timestamp grows with its position.
AddDelegation(user, v, amt) ==
    /\ ~ranked
    /\ report \in {"delegators", "recent"}
    /\ allUnbonds = <<>>
    /\ EventsLeft
    /\ allDelegations' = Append(allDelegations,
          [validatorId |-> v, address |-> ToLowerCase(user), amount |-> amt,
           timestamp |-> Len(allDelegations) + 1])
    /\ UNCHANGED <<report, allUnbonds, ranked, limit, addressStakes, ranking>>

\* one unbond record of the staking API pushed: fetchAllDelegatorsAcrossValidators
\* lower-cases event.user, fetchAllUnbondsAcrossValidators keeps it as reported
AddUnbond(user, v, amt) ==
    /\ ~ranked
    /\ report \in {"delegators", "unbonds"}
    /\ EventsLeft
    /\ allUnbonds' = Append(allUnbonds,
          [validatorId |-> v,
           address |-> IF report = "delegators" THEN ToLowerCase(user) ELSE user,
           amount |-> amt])
    /\ UNCHANGED <<report, allDelegations, ranked, limit, addressStakes, ranking>>

\* fetchAllDelegatorsAcrossValidators(months, limit), from "Calculate net stake per
\* address" to the return
RankDelegators(n) ==
    /\ ~ranked
    /\ report = "delegators"
    /\ ranked' = TRUE
    /\ limit' = n
    /\ addressStakes' = AddressStakes(allDelegations, allUnbonds)
    /\ ranking' = TopDelegators(addressStakes', n)
    /\ UNCHANGED <<report, allDelegations, allUnbonds>>

\* fetchAllUnbondsAcrossValidators(days, limit) / getBiggestUnbonds(days, limit): the
\* sort, the slice and the ranks
RankUnbonds(n) ==
    /\ ~ranked
    /\ report = "unbonds"
    /\ ranked' = TRUE
    /\ limit' = n
    /\ ranking' = BiggestUnbonds(allUnbonds, n)
    /\ UNCHANGED <<report, allDelegations, allUnbonds, addressStakes>>

\* fetchRecentDelegations(hours, limit): the sort, the slice and the ranks
RankRecent(n) ==
    /\ ~ranked
    /\ report = "recent"
    /\ ranked' = TRUE
    /\ limit' = n
    /\ ranking' = RecentDelegations(allDelegations, n)
    /\ UNCHANGED <<report, allDelegations, allUnbonds, addressStakes>>

NextRank ==
    \/ \E src \in DelegationSources, a \in DelegationAmounts :
          AddDelegation(src[1], src[2], a) /\ UNCHANGED notRank
    \/ \E src \in UnbondSources, a \in UnbondAmounts :
          AddUnbond(src[1], src[2], a) /\ UNCHANGED notRank
    \/ \E n \in 0..MaxTop : RankDelegators(n) /\ UNCHANGED notRank
    \/ \E n \in 0..MaxTop : RankUnbonds(n) /\ UNCHANGED notRank
    \/ \E n \in 0..MaxTop : RankRecent(n) /\ UNCHANGED notRank
-----------------------------------------------------------------------------
(* The ShareMinted decoders. A string is the sequence of its characters, and a
   BigInt is the sequence of its hex digits without leading zeros, so that a value
   of 256 bits and more keeps every digit. *)

HexChars == {"0", "1", "2", "3", "4", "5", "6", "7", "8", "9",
             "a", "b", "c", "d", "e", "f"}

DataPrefix == <<"0", "x">>

\* the digits without their leading zeros; "0" for zero
StripZeros(digits) ==
    LET nonZero == {i \in 1..Len(digits) : digits[i] # "0"}
    IN IF nonZero = {} THEN <<"0">>
       ELSE SubSeq(digits, CHOOSE i \in nonZero : \A j \in nonZero : i <= j, Len(digits))

\* BigInt(str) for a string: "0x" and at least one hex digit give the big-endian
\* value of all the digits, the empty string gives 0n, anything else throws a
\* SyntaxError
BigInt(str) ==
    IF str = <<>> THEN <<"0">>
    ELSE IF /\ Len(str) > 2
       /\ SubSeq(str, 1, 2) = DataPrefix
       /\ \A i \in 3..Len(str) : str[i] \in HexChars
    THEN StripZeros(SubSeq(str, 3, Len(str)))
    ELSE <<"SyntaxError">>

\* str.slice(start)
SliceFrom(str, start) == SubSeq(str, start + 1, Len(str))

\* str.slice(0, end), for an end >= 0
SliceTo(str, end) == SubSeq(str, 1, Min(end, Len(str)))

\* parseShareMintedEvent: BigInt('0x' + log.data.slice(2).slice(0, 64))
ParseShareMintedAmount(data) == BigInt(DataPrefix \o SliceTo(SliceFrom(data, 2), SlotChars))

\* processDelegationEvents: BigInt(event.data.slice(0, 66))
ProcessDelegationAmount(data) == BigInt(SliceTo(data, PrefixedSlotChars))

\* fetchRecentDelegations and fetchAllDelegatorsAcrossValidators: BigInt(event.data)
TrackerAmount(data) == BigInt(data)

\* the low digits of the slots a log may hold: 0, 1, 16, 255 and 10^18
SlotTails ==
    {<<"0">>, <<"1">>, <<"1", "0">>, <<"f", "f">>,
     <<"d", "e", "0", "b", "6", "b", "3", "a", "7", "6", "4", "0", "0", "0", "0">>}

\* a 32-byte slot: the value left-padded with zeros to 64 hex characters
SlotOf(tail) == [i \in 1..(SlotChars - Len(tail)) |-> "0"] \o tail

RECURSIVE Concat(_)
Concat(slots) == IF slots = <<>> THEN <<>> ELSE Head(slots) \o Concat(Tail(slots))

DecodeIdle ==
    /\ logData = DataPrefix
    /\ decoder = "none"
    /\ amountWei = <<>>

\* the data of a log: "0x" and the slots of its non-indexed fields, in order
DecodeStart ==
    /\ logData \in {DataPrefix \o Concat([i \in 1..Len(tails) |-> SlotOf(tails[i])]) :
                      tails \in UNION {[1..k -> SlotTails] : k \in 1..MaxSlots}}
    /\ decoder = "none"
    /\ amountWei = <<>>

\* ActiveDelegatorsFetcher / DirectRPCDelegatorFetcher / SpecificDatesFetcher
\* .parseShareMintedEvent(log)
ParseShareMintedEvent ==
    /\ decoder = "none"
    /\ decoder' = "parseShareMintedEvent"
    /\ amountWei' = ParseShareMintedAmount(logData)
    /\ UNCHANGED logData

\* EthereumDelegationTracker.processDelegationEvents, one event
ProcessDelegationEvents ==
    /\ decoder = "none"
    /\ decoder' = "processDelegationEvents"
    /\ amountWei' = ProcessDelegationAmount(logData)
    /\ UNCHANGED logData

\* ValidatorTracker.fetchRecentDelegations, one event of its loop
FetchRecentDelegationsDecode ==
    /\ decoder = "none"
    /\ decoder' = "fetchRecentDelegations"
    /\ amountWei' = TrackerAmount(logData)
    /\ UNCHANGED logData

\* ValidatorTracker.fetchAllDelegatorsAcrossValidators, one event of its loop
FetchAllDelegatorsDecode ==
    /\ decoder = "none"
    /\ decoder' = "fetchAllDelegatorsAcrossValidators"
    /\ amountWei' = TrackerAmount(logData)
    /\ UNCHANGED logData

NextDecode ==
    \/ ParseShareMintedEvent /\ UNCHANGED notDecode
    \/ ProcessDelegationEvents /\ UNCHANGED notDecode
    \/ FetchRecentDelegationsDecode /\ UNCHANGED notDecode
    \/ FetchAllDelegatorsDecode /\ UNCHANGED notDecode

-----------------------------------------------------------------------------
(* The loops that decode a batch of raw logs: processDelegationEvents, the
   logs.forEach of main, and the events.forEach of
   fetchAllDelegatorsAcrossValidators. *)

Processors == {"processDelegationEvents", "main", "fetchAllDelegatorsAcrossValidators"}

\* a data field that is missing from the log
Undefined == <<"undefined">>

\* one slot holding 10^18, and the two slots (amount 10^18, tokens 1) of ShareMinted
OneSlotData ==
    DataPrefix \o SlotOf(<<"d", "e", "0", "b", "6", "b", "3", "a", "7", "6", "4", "0",
                           "0", "0", "0">>)
TwoSlotData == OneSlotData \o SlotOf(<<"1">>)

\* data shorter than one slot: no byte, one byte, 31 bytes; and the empty string
ShortDatas ==
    {DataPrefix, DataPrefix \o <<"0", "1">>, DataPrefix \o [i \in 1..62 |-> "f"], <<>>}

\* a slot with a character that is no hex digit
MalformedData == DataPrefix \o <<"z", "z">> \o [i \in 1..62 |-> "0"]

\* timestamps in seconds relative to the cutoff: 0 is before it
CutoffTimestamp == 1
Timestamps == {0, 1, 2}

\* the raw logs a response may hold. timeStamp is 0 - 1 when the field is missing.
RawLogKinds ==
    {[topics |-> TRUE, data |-> TwoSlotData, timeStamp |-> t] : t \in Timestamps}
    \cup {[topics |-> TRUE, data |-> d, timeStamp |-> 2] : d \in ShortDatas}
    \cup {[topics |-> TRUE, data |-> TwoSlotData, timeStamp |-> 0 - 1],
          [topics |-> TRUE, data |-> MalformedData, timeStamp |-> 1],
          [topics |-> TRUE, data |-> Undefined, timeStamp |-> 2],
          [topics |-> FALSE, data |-> TwoSlotData, timeStamp |-> 2]}

\* the amount the processor's decoder reads from the data
AmountOf(p, data) ==
    CASE p = "processDelegationEvents" -> ProcessDelegationAmount(data)
      [] p = "main" -> ParseShareMintedAmount(data)
      [] OTHER -> TrackerAmount(data)

\* the body of the try block throws: event.topics[1] of a log without topics,
\* event.data.slice / BigInt of a missing data field, or BigInt's SyntaxError
DecodeThrows(p, log) ==
    \/ ~log.topics
    \/ log.data = Undefined
    \/ AmountOf(p, log.data) = <<"SyntaxError">>

\* a loop body without a try block around the decoding
CatchesNoDecodeError(p) == FALSE

\* try { ... } catch (error) { console.warn(...); continue; } / catch (err) { }
CatchesDecodeError(p) == TRUE

\* if (blockTimestamp < cutoffTimestamp) continue; only processDelegationEvents
\* filters by time
SkipsOld(p, timestamp) == p = "processDelegationEvents" /\ timestamp < CutoffTimestamp

RECURSIVE InsertAsc(_, _)
\* x put behind every element whose timestamp is at most x's
InsertAsc(sorted, x) ==
    IF sorted = <<>> THEN <<x>>
    ELSE IF Head(sorted).timestamp <= x.timestamp
         THEN <<Head(sorted)>> \o InsertAsc(Tail(sorted), x)
         ELSE <<x>> \o sorted

RECURSIVE SortByTimestamp(_)
\* processedEvents.sort((a, b) => a.timestamp - b.timestamp)
SortByTimestamp(evts) ==
    IF evts = <<>> THEN <<>>
    ELSE InsertAsc(SortByTimestamp(SubSeq(evts, 1, Len(evts) - 1)), evts[Len(evts)])

BatchIdle ==
    /\ processor = "none"
    /\ rawLogs = <<>>
    /\ cursor = 0
    /\ processedEvents = <<>>
    /\ batchReturned = FALSE
    /\ batchRaised = FALSE
    /\ raisedAt = {}
    /\ skippedAt = {}

BatchStart ==
    /\ processor \in Processors
    /\ rawLogs \in UNION {[1..n -> RawLogKinds] : n \in 0..MaxLogs}
    /\ cursor = 0
    /\ processedEvents = <<>>
    /\ batchReturned = FALSE
    /\ batchRaised = FALSE
    /\ raisedAt = {}
    /\ skippedAt = {}

\* one iteration of the loop. A log without timeStamp has its time looked up by
\* getBlockTimestamp, which answers the block's time or, on an error, the current
\* time; both are some timestamp.
ProcessLog ==
    /\ processor # "none"
    /\ ~batchReturned
    /\ ~batchRaised
    /\ cursor < Len(rawLogs)
    /\ LET i == cursor + 1
           log == rawLogs[i]
           lookedUp == processor = "processDelegationEvents" /\ log.timeStamp < 0
       IN \E blockTimestamp \in (IF lookedUp THEN Timestamps ELSE {log.timeStamp}) :
               /\ IF SkipsOld(processor, blockTimestamp)
                  THEN /\ skippedAt' = skippedAt \cup {i}
                       /\ cursor' = i
                       /\ UNCHANGED <<processedEvents, batchRaised, raisedAt>>
                  ELSE IF DecodeThrows(processor, log)
                  THEN /\ raisedAt' = raisedAt \cup {i}
                       /\ IF CatchesDecodeError(processor)
                          THEN cursor' = i /\ UNCHANGED batchRaised
                          ELSE batchRaised' = TRUE /\ UNCHANGED cursor
                       /\ UNCHANGED <<processedEvents, skippedAt>>
                  ELSE /\ processedEvents' = Append(processedEvents,
                              [log |-> i,
                               amountWei |-> AmountOf(processor, log.data),
                               timestamp |-> blockTimestamp])
                       /\ cursor' = i
                       /\ UNCHANGED <<batchRaised, raisedAt, skippedAt>>
    /\ UNCHANGED <<processor, rawLogs, batchReturned>>

\* the loop is over: processDelegationEvents sorts by timestamp and returns, the
\* other two go on with the list
ReturnEvents ==
    /\ processor # "none"
    /\ ~batchReturned
    /\ ~batchRaised
    /\ cursor = Len(rawLogs)
    /\ batchReturned' = TRUE
    /\ processedEvents' = IF processor = "processDelegationEvents"
                          THEN SortByTimestamp(processedEvents)
                          ELSE processedEvents
    /\ UNCHANGED <<processor, rawLogs, cursor, batchRaised, raisedAt, skippedAt>>

NextBatch ==
    \/ ProcessLog /\ UNCHANGED notBatch
    \/ ReturnEvents /\ UNCHANGED notBatch

-----------------------------------------------------------------------------
(* Address classification: DelegatorFilter.classifyAddressBasic and
   filterDelegatorAddresses, FundFlowTracker.classifyAddress *)

Classifiers == {"DelegatorFilter", "FundFlowTracker"}

\* this.knownExchangeAddresses / this.knownDefiAddresses: the entries the model uses
KnownExchangeAddresses == {"0x5e3346444010135322268a0ca24b70e5b1d0d52a"}
KnownDefiAddresses == {"0x8f3cf7ad23cd3cadbd9735aff958023239c6a063"}

\* FundFlowTracker.loadKnownAddresses(): address and type
KnownAddresses ==
    {<<"0x5e3346444010135322268a0ca24b70e5b1d0d52a", "exchange">>,
     <<"0x8f3cf7ad23cd3cadbd9735aff958023239c6a063", "defi">>,
     <<"0x9fb29aac15b9a4b7f17c3385939b007540f4d791", "validator">>}

\* the addresses callers pass: known and unknown ones, in lower, mixed and upper case
ClassifyInputs ==
    {"0x5e3346444010135322268a0ca24b70e5b1d0d52a",
     "0x5E3346444010135322268a0CA24B70E5b1d0D52A",
     "0X5E3346444010135322268A0CA24B70E5B1D0D52A",
     "0X8F3CF7AD23CD3CADBD9735AFF958023239C6A063",
     "0x9fb29aac15b9a4b7f17c3385939b007540f4d791",
     "0x00000000000000000000000000000000000000ab",
     "0x00000000000000000000000000000000000000Ab"}

\* the addresses of the delegation and unbond events handed to the filter
FilterInputs ==
    {"0x5E3346444010135322268a0CA24B70E5b1d0D52A",
     "0X8F3CF7AD23CD3CADBD9735AFF958023239C6A063",
     "0x9fb29aac15b9a4b7f17c3385939b007540f4d791",
     "0x00000000000000000000000000000000000000Ab"}

\* what the Arkham request of getArkhamLabel may come to: an entity that
\* classifyFromArkham types, no entity (null), or an error that is thrown
ArkhamOutcomes == {"exchange", "wallet", "null", "error"}

\* Map.has / Map.get on the cache
CacheHas(cache, key) == \E e \in cache : e[1] = key
CacheGet(cache, key) == (CHOOSE e \in cache : e[1] = key)[2]

\* Map.set on the cache
CacheSet(cache, key, result) == {e \in cache : e[1] # key} \cup {<<key, result>>}

\* isKnownExchangeOrDefi(address)
IsKnownExchangeOrDefi(address) ==
    \/ ToLowerCase(address) \in KnownExchangeAddresses
    \/ ToLowerCase(address) \in KnownDefiAddresses

\* a lookup that forgets to lower-case the address
LookupKeyAsGiven(address) == address

\* const addressLower = address.toLowerCase()
LookupKey(address) == ToLowerCase(address)

\* a classification whose default is 'unknown'
BasicResultDefaultUnknown(address) ==
    IF IsKnownExchangeOrDefi(address)
    THEN [type |-> IF LookupKey(address) \in KnownExchangeAddresses
                   THEN "exchange" ELSE "defi",
          source |-> "local"]
    ELSE [type |-> "unknown", source |-> "default"]

\* classifyAddressBasic without the cache: the result for a known address, or the
\* default
BasicResult(address) ==
    IF IsKnownExchangeOrDefi(address)
    THEN [type |-> IF LookupKey(address) \in KnownExchangeAddresses
                   THEN "exchange" ELSE "defi",
          source |-> "local"]
    ELSE [type |-> "individual", source |-> "default"]

\* DelegatorFilter.classifyAddressBasic(address): <<result, cache after the call>>
ClassifyBasic(cache, address) ==
    IF CacheHas(cache, LookupKey(address))
    THEN <<CacheGet(cache, LookupKey(address)), cache>>
    ELSE <<BasicResult(address), CacheSet(cache, LookupKey(address), BasicResult(address))>>

\* FundFlowTracker.classifyAddress(address) for one outcome of the Arkham request:
\* <<result, cache after the call>>
ClassifyFlow(cache, address, keyed, outcome) ==
    LET key == LookupKey(address)
        known == {k \in KnownAddresses : k[1] = key}
        result ==
            IF known # {}
            THEN [type |-> (CHOOSE k \in known : TRUE)[2], source |-> "local"]
            ELSE IF keyed /\ outcome \notin {"null", "error"}
            THEN [type |-> outcome, source |-> "arkham"]
            ELSE [type |-> "unknown", source |-> "default"]
    IN IF CacheHas(cache, key) THEN <<CacheGet(cache, key), cache>>
       ELSE <<result, CacheSet(cache, key, result)>>

\* the last but one branch of the loop over batchResults: the address goes to
\* individualDelegators
KeptAsIndividual(type, opts) ==
    \/ type = "individual"
    \/ ~opts.excludeExchanges /\ type = "exchange"
    \/ ~opts.excludeDefi /\ type = "defi"
    \/ ~opts.excludeInstitutional /\ type = "institutional"

\* the list of results one classified address is pushed to
ListFor(type, opts) ==
    IF type = "exchange" /\ opts.excludeExchanges THEN "exchanges"
    ELSE IF type = "defi" /\ opts.excludeDefi THEN "defi"
    ELSE IF type = "institutional" /\ opts.excludeInstitutional THEN "institutional"
    ELSE IF KeptAsIndividual(type, opts) THEN "individualDelegators"
    ELSE "unknown"

NoResults == <<[address |-> "none", type |-> "none", list |-> "none"]>>

RECURSIVE FilterFrom(_, _, _)
\* the batches of filterDelegatorAddresses, one address after the other: <<the entries
\* pushed, each with the list it went to, cache after the calls>>. classifyAddressBasic
\* awaits nothing, so the calls of a batch run to completion in the order of the
\* addresses.
FilterFrom(cache, addresses, opts) ==
    IF addresses = <<>> THEN <<<<>>, cache>>
    ELSE LET first == ClassifyBasic(cache, Head(addresses))
             rest == FilterFrom(first[2], Tail(addresses), opts)
         IN <<<<[address |-> Head(addresses),
                 type |-> first[1].type,
                 list |-> ListFor(first[1].type, opts)]>> \o rest[1],
              rest[2]>>

\* results.statistics as filterDelegatorAddresses initialises it
InitialStatistics(total) ==
    [total |-> total, individual |-> 0, exchanges |-> 0, defi |-> 0,
     institutional |-> 0, unknown |-> 0]

NoStatistics == [total |-> -1]

HasKey(statistics, key) == key \in DOMAIN statistics

\* statistics[key]++: an absent property is undefined, and undefined + 1 is NaN
Increment(statistics, key) ==
    IF HasKey(statistics, key)
    THEN [statistics EXCEPT ![key] = IF @ = NaN THEN NaN ELSE @ + 1]
    ELSE (key :> NaN) @@ statistics

\* one round of the loop over batchResults: results.statistics[classification.type]++
\* and, in the branch that keeps the address, results.statistics.individual++
CountEntry(statistics, entry) ==
    LET counted == Increment(statistics, entry.type)
    IN IF entry.list = "individualDelegators"
       THEN Increment(counted, "individual")
       ELSE counted

RECURSIVE CountEntries(_, _)
CountEntries(statistics, entries) ==
    IF entries = <<>> THEN statistics
    ELSE CountEntries(CountEntry(statistics, Head(entries)), Tail(entries))

\* results.statistics when filterDelegatorAddresses returns
StatisticsOf(entries, total) == CountEntries(InitialStatistics(total), entries)

ExcludeOptions ==
    [excludeExchanges : BOOLEAN, excludeDefi : BOOLEAN, excludeInstitutional : BOOLEAN]

\* the options object's defaults
DefaultOptions ==
    [excludeExchanges |-> TRUE, excludeDefi |-> TRUE, excludeInstitutional |-> TRUE]

ClassifyIdle ==
    /\ classifier = "none"
    /\ arkhamKey = FALSE
    /\ labelCache = {}
    /\ calls = <<>>
    /\ filterOptions = DefaultOptions
    /\ filterResults = NoResults
    /\ filterStatistics = NoStatistics

ClassifyStart ==
    /\ classifier \in Classifiers
    /\ arkhamKey \in BOOLEAN
    /\ classifier = "DelegatorFilter" => ~arkhamKey
    /\ labelCache = {}
    /\ calls = <<>>
    /\ filterOptions = DefaultOptions
    /\ filterResults = NoResults
    /\ filterStatistics = NoStatistics

\* a caller awaits delegatorFilter.classifyAddressBasic(address)
ClassifyAddressBasic(address) ==
    /\ classifier = "DelegatorFilter"
    /\ Len(calls) < MaxCalls
    /\ LET r == ClassifyBasic(labelCache, address)
       IN /\ calls' = Append(calls, [address |-> address, type |-> r[1].type,
                                     cached |-> CacheHas(labelCache, LookupKey(address))])
          /\ labelCache' = r[2]
    /\ UNCHANGED <<classifier, arkhamKey, filterOptions, filterResults, filterStatistics>>

\* a caller awaits flowTracker.classifyAddress(address)
ClassifyAddress(address, outcome) ==
    /\ classifier = "FundFlowTracker"
    /\ Len(calls) < MaxCalls
    /\ LET r == ClassifyFlow(labelCache, address, arkhamKey, outcome)
       IN /\ calls' = Append(calls, [address |-> address, type |-> r[1].type,
                                     cached |-> CacheHas(labelCache, LookupKey(address))])
          /\ labelCache' = r[2]
    /\ UNCHANGED <<classifier, arkhamKey, filterOptions, filterResults, filterStatistics>>

\* delegatorFilter.filterDelegatorAddresses(addresses, options)
FilterDelegatorAddresses(addresses, opts) ==
    /\ classifier = "DelegatorFilter"
    /\ filterResults = NoResults
    /\ LET r == FilterFrom(labelCache, addresses, opts)
       IN /\ filterResults' = r[1]
          /\ filterStatistics' = StatisticsOf(r[1], Len(addresses))
          /\ labelCache' = r[2]
    /\ filterOptions' = opts
    /\ UNCHANGED <<classifier, arkhamKey, calls>>

NextClassify ==
    \/ \E a \in ClassifyInputs : ClassifyAddressBasic(a) /\ UNCHANGED notClassify
    \/ \E a \in ClassifyInputs, o \in ArkhamOutcomes :
          ClassifyAddress(a, o) /\ UNCHANGED notClassify
    \/ \E as \in UNION {[1..n -> FilterInputs] : n \in 1..MaxAddresses},
          opts \in ExcludeOptions :
          FilterDelegatorAddresses(as, opts) /\ UNCHANGED notClassify

-----------------------------------------------------------------------------
(* MetaSleuthVisualizer.createBatchVisualizations: the addresses are cut into
   batches, the tasks of a batch are started together by batch.map(async ...) and
   awaited with Promise.all. A task is "waiting" before its batch starts, has a
   request in flight in "addressInfo" and "fundFlow", sleeps in "rateLimited" and
   "delay", and is "done" when its promise has settled. *)

InFlight == {"addressInfo", "fundFlow"}

\* the addresses of the batch that starts at index from
BatchOf(from) == from..Min(from + vizBatchSize - 1, vizCount)

\* where a task stands once batch.map has called it: createVisualizationForAddress
\* returns null at once without an API key, and else runs up to the await of
\* getAddressInfo's axios.post
Started == IF vizKey THEN "addressInfo" ELSE "done"

VizIdle ==
    /\ vizKey = FALSE
    /\ vizCount = 0
    /\ vizBatchSize = DefaultMaxConcurrency
    /\ vizBatchFrom = 0
    /\ vizTasks = <<>>
    /\ vizSuccessful = <<>>
    /\ vizFailed = <<>>
    /\ vizReturned = FALSE

VizStart ==
    /\ vizKey \in BOOLEAN
    /\ vizCount \in 0..MaxVizAddresses
    /\ vizBatchSize \in {Min(mc, MaxVizBatch) : mc \in {1, DefaultMaxConcurrency, 6}}
    /\ vizBatchFrom = 0
    /\ vizTasks = [i \in 1..vizCount |-> "waiting"]
    /\ vizSuccessful = <<>>
    /\ vizFailed = <<>>
    /\ vizReturned = FALSE

\* for (const batch of batches): the next batch starts once the one before has
\* settled; every task of it is called before the first await returns
StartBatch ==
    /\ ~vizReturned
    /\ \A i \in 1..vizCount : vizTasks[i] \in {"waiting", "done"}
    /\ LET from == IF vizBatchFrom = 0 THEN 1 ELSE vizBatchFrom + vizBatchSize
       IN /\ from <= vizCount
          /\ vizBatchFrom' = from
          /\ vizTasks' = [i \in 1..vizCount |->
                            IF i \in BatchOf(from) THEN Started ELSE vizTasks[i]]
          /\ vizFailed' = IF vizKey THEN vizFailed
                          ELSE vizFailed \o [k \in 1..Cardinality(BatchOf(from)) |->
                                               from + k - 1]
    /\ UNCHANGED <<vizKey, vizCount, vizBatchSize, vizSuccessful, vizReturned>>

\* getAddressInfo's request is answered: with data the task goes on to the fund-flow
\* request, without data or with an error the visualization is null; a 429 sleeps
\* first
AddressInfoAnswered(i, answer) ==
    /\ i \in 1..vizCount
    /\ vizTasks[i] = "addressInfo"
    /\ vizTasks' = [vizTasks EXCEPT ![i] =
                      CASE answer = "data" -> "fundFlow"
                        [] answer = "429" -> "rateLimited"
                        [] OTHER -> "done"]
    /\ vizFailed' = IF answer \in {"empty", "error"} THEN Append(vizFailed, i)
                    ELSE vizFailed
    /\ UNCHANGED <<vizKey, vizCount, vizBatchSize, vizBatchFrom, vizSuccessful,
                   vizReturned>>

\* await this.sleep(1000) is over; throw error, caught by createVisualizationForAddress
RateLimitSleepOver(i) ==
    /\ i \in 1..vizCount
    /\ vizTasks[i] = "rateLimited"
    /\ vizTasks' = [vizTasks EXCEPT ![i] = "done"]
    /\ vizFailed' = Append(vizFailed, i)
    /\ UNCHANGED <<vizKey, vizCount, vizBatchSize, vizBatchFrom, vizSuccessful,
                   vizReturned>>

\* getFundFlowData's request is answered or fails: both give fund-flow data
FundFlowAnswered(i) ==
    /\ i \in 1..vizCount
    /\ vizTasks[i] = "fundFlow"
    /\ vizTasks' = [vizTasks EXCEPT ![i] = "delay"]
    /\ UNCHANGED <<vizKey, vizCount, vizBatchSize, vizBatchFrom, vizSuccessful,
                   vizFailed, vizReturned>>

\* await this.sleep(this.requestDelay) is over; return visualization
DelayOver(i) ==
    /\ i \in 1..vizCount
    /\ vizTasks[i] = "delay"
    /\ vizTasks' = [vizTasks EXCEPT ![i] = "done"]
    /\ vizSuccessful' = Append(vizSuccessful, i)
    /\ UNCHANGED <<vizKey, vizCount, vizBatchSize, vizBatchFrom, vizFailed, vizReturned>>

\* the last batch has settled: return results
ReturnResults ==
    /\ ~vizReturned
    /\ \A i \in 1..vizCount : vizTasks[i] = "done"
    /\ vizReturned' = TRUE
    /\ UNCHANGED <<vizKey, vizCount, vizBatchSize, vizBatchFrom, vizTasks,
                   vizSuccessful, vizFailed>>

NextViz ==
    \/ StartBatch /\ UNCHANGED notViz
    \/ \E i \in 1..vizCount, answer \in {"data", "empty", "error", "429"} :
          AddressInfoAnswered(i, answer) /\ UNCHANGED notViz
    \/ \E i \in 1..vizCount : RateLimitSleepOver(i) /\ UNCHANGED notViz
    \/ \E i \in 1..vizCount : FundFlowAnswered(i) /\ UNCHANGED notViz
    \/ \E i \in 1..vizCount : DelayOver(i) /\ UNCHANGED notViz
    \/ ReturnResults /\ UNCHANGED notViz

-----------------------------------------------------------------------------
(* The operations that fetch delegation events from the indexer: the API-key check,
   the block-by-timestamp lookup with its fallback, and the log query *)

Operations ==
    {"fetchDelegationEvents", "fetchRecentDelegations",
     "fetchAllDelegatorsAcrossValidators"}

\* the two static operations of ValidatorTracker start with fetchAllValidators()
FetchesValidatorsFirst(op) == op # "fetchDelegationEvents"

SecondsPerBlock == 12

HeadBlocks == {1, 5, 20}
ElapsedChoices == {0, 30, 120}
LookupBlocks == {3, 7}     \* the blocks a successful lookup resolves to

\* Math.max(1, currentBlock - approxBlocks), approxBlocks = Math.floor(elapsed / 12)
Extrapolated(head, elapsed) == Max(1, head - (elapsed \div SecondsPerBlock))

\* what the operation makes of a lookup answered with status other than '1':
\* fetchAllDelegatorsAcrossValidators takes block 0, the others throw into the
\* fallback
StatusErrorGivesZero(op) == op = "fetchAllDelegatorsAcrossValidators"

\* fetchRecentDelegations validates the start block before the log query
RejectsStartBlock(op, block) ==
    op = "fetchRecentDelegations" /\ (block = NaN \/ block <= 0)

LookupIdle ==
    /\ operation = "none"
    /\ etherscanApiKey = FALSE
    /\ currentBlock = 1
    /\ elapsedSeconds = 0
    /\ awaiting = "start"
    /\ requests = <<>>
    /\ lookup = "none"
    /\ startBlock = <<>>
    /\ fetched = "none"

LookupStart ==
    /\ operation \in Operations
    /\ etherscanApiKey \in BOOLEAN
    /\ currentBlock \in HeadBlocks
    /\ elapsedSeconds \in ElapsedChoices
    /\ awaiting = "start"
    /\ requests = <<>>
    /\ lookup = "none"
    /\ startBlock = <<>>
    /\ fetched = "none"

\* return []
ReturnEmpty ==
    /\ awaiting' = "returned"
    /\ fetched' = "empty"
    /\ UNCHANGED <<requests, startBlock>>

\* the API-key check, and the lookup request when it passes
CheckKey ==
    IF ~etherscanApiKey
    THEN ReturnEmpty
    ELSE /\ awaiting' = "getblocknobytime"
         /\ requests' = Append(requests, "getblocknobytime")
         /\ UNCHANGED <<startBlock, fetched>>

\* the log query is issued from block
IssueLogQuery(block) ==
    IF RejectsStartBlock(operation, block)
    THEN ReturnEmpty
    ELSE /\ awaiting' = "getLogs"
         /\ requests' = Append(requests, "getLogs")
         /\ startBlock' = <<block>>
         /\ UNCHANGED fetched

\* the operation is called: fetchDelegationEvents checks the key, the other two
\* request the validator list
Call ==
    /\ awaiting = "start"
    /\ IF FetchesValidatorsFirst(operation)
       THEN /\ awaiting' = "validators"
            /\ requests' = Append(requests, "validators")
            /\ UNCHANGED <<startBlock, fetched>>
       ELSE CheckKey
    /\ UNCHANGED <<operation, etherscanApiKey, currentBlock, elapsedSeconds, lookup>>

\* fetchAllValidators returns: the list, or [] when the request failed
ValidatorsAnswered(answer) ==
    /\ awaiting = "validators"
    /\ IF answer = "some" THEN CheckKey ELSE ReturnEmpty
    /\ UNCHANGED <<operation, etherscanApiKey, currentBlock, elapsedSeconds, lookup>>

\* the block-by-timestamp request is answered with a block, is answered with a
\* status other than '1', or throws
LookupAnswered(answer, block) ==
    /\ awaiting = "getblocknobytime"
    /\ lookup' = answer
    /\ CASE answer = "ok" -> IssueLogQuery(block)
         [] answer = "status" /\ StatusErrorGivesZero(operation) -> IssueLogQuery(0)
         [] OTHER -> /\ awaiting' = "eth_blockNumber"
                     /\ requests' = Append(requests, "eth_blockNumber")
                     /\ UNCHANGED <<startBlock, fetched>>
    /\ UNCHANGED <<operation, etherscanApiKey, currentBlock, elapsedSeconds>>

\* the head request of the fallback is answered with the head, is answered with text
\* that parseInt(.., 16) cannot read, or throws into the operation's catch
HeadAnswered(answer) ==
    /\ awaiting = "eth_blockNumber"
    /\ CASE answer = "ok" -> IssueLogQuery(Extrapolated(currentBlock, elapsedSeconds))
         [] answer = "unreadable" -> IssueLogQuery(NaN)
         [] OTHER -> ReturnEmpty
    /\ UNCHANGED <<operation, etherscanApiKey, currentBlock, elapsedSeconds, lookup>>

\* the log query is answered with logs, is answered with a status other than '1',
\* or throws into the operation's catch
LogsAnswered(answer) ==
    /\ awaiting = "getLogs"
    /\ awaiting' = "returned"
    /\ fetched' = IF answer = "ok" THEN "list" ELSE "empty"
    /\ UNCHANGED <<operation, etherscanApiKey, currentBlock, elapsedSeconds, requests,
                   lookup, startBlock>>

NextLookup ==
    \/ Call /\ UNCHANGED notLookup
    \/ \E answer \in {"some", "none"} : ValidatorsAnswered(answer) /\ UNCHANGED notLookup
    \/ \E answer \in {"ok", "status", "thrown"}, block \in LookupBlocks :
          LookupAnswered(answer, block) /\ UNCHANGED notLookup
    \/ \E answer \in {"ok", "unreadable", "thrown"} :
          HeadAnswered(answer) /\ UNCHANGED notLookup
    \/ \E answer \in {"ok", "status", "thrown"} :
          LogsAnswered(answer) /\ UNCHANGED notLookup

-----------------------------------------------------------------------------
(* The CLI commands biggest-unbonds (all validators, one validator) and analyze, and
   the programmatic ValidatorStakeTracker.runCompleteAnalysis *)

Commands == {"biggest-unbonds", "biggest-unbonds <id>", "analyze", "runCompleteAnalysis"}

Analyses == {"analyze", "runCompleteAnalysis"}

\* the methods class ValidatorTracker defines
TrackerMethods ==
    {"fetchAllValidators", "fetchAllUnbondsAcrossValidators", "fetchRecentDelegations",
     "fetchAllDelegatorsAcrossValidators", "fromWeiToPolNumberStatic",
     "fetchValidatorInfo", "fetchUnbonds", "fetchDelegations",
     "filterDelegatorAddresses", "analyzeStakeChanges", "fromWeiToPolNumber",
     "parseStakeToPOL", "getStakeBreakdown", "getCurrentStake", "getBiggestUnbonds",
     "exportData", "printAnalysisSummary", "runFullAnalysis"}

\* calling tracker.method(): a method the class lacks is a TypeError
IsFunction(method) == method \in TrackerMethods

CliIdle ==
    /\ command = "none"
    /\ charts = FALSE
    /\ exportOption = FALSE
    /\ step = "start"
    /\ validatorsLeft = 0
    /\ unbondRequests = 0
    /\ unbondFailures = 0
    /\ unbondCount = 0
    /\ delegationCount = 0
    /\ failed = {}
    /\ errorPrinted = FALSE
    /\ completed = FALSE
    /\ listed = FALSE
    /\ exitStatus = -1
    /\ raised = FALSE

CliStart ==
    /\ command \in Commands
    /\ charts \in BOOLEAN
    /\ exportOption \in BOOLEAN
    /\ step = "start"
    /\ validatorsLeft = 0
    /\ unbondRequests = 0
    /\ unbondFailures = 0
    /\ unbondCount = 0
    /\ delegationCount = 0
    /\ failed = {}
    /\ errorPrinted = FALSE
    /\ completed = FALSE
    /\ listed = FALSE
    /\ exitStatus = -1
    /\ raised = FALSE

options == <<command, charts, exportOption>>

\* the action returns: the process ends with exit code 0
EndsNormally == step' = "end" /\ exitStatus' = 0 /\ raised' = raised

\* an error reaches the entry point's catch: the CLI actions print it and
\* process.exit(1), runCompleteAnalysis prints it and throws it again
Caught ==
    /\ step' = "end"
    /\ errorPrinted' = TRUE
    /\ IF command = "runCompleteAnalysis"
       THEN raised' = TRUE /\ exitStatus' = exitStatus
       ELSE raised' = raised /\ exitStatus' = 1

\* the command starts and sends its first request
Invoke ==
    /\ step = "start"
    /\ step' = IF command = "biggest-unbonds" THEN "fetchAllValidators"
               ELSE "fetchValidatorInfo"
    /\ UNCHANGED <<options, validatorsLeft, unbondRequests, unbondFailures, unbondCount,
                   delegationCount, failed, errorPrinted, completed, listed, exitStatus,
                   raised>>

\* fetchAllValidators returns the list, or [] after printing the error; with no
\* validator fetchAllUnbondsAcrossValidators returns [] at once, and the command
\* prints "No unstaking transactions found" and returns
AllValidatorsAnswered(answer, n) ==
    /\ step = "fetchAllValidators"
    /\ IF answer = "ok" /\ n > 0
       THEN /\ step' = "unbonds"
            /\ validatorsLeft' = n
            /\ UNCHANGED <<failed, errorPrinted, completed, exitStatus, raised>>
       ELSE /\ EndsNormally
            /\ failed' = IF answer = "ok" THEN failed ELSE failed \cup {"validators"}
            /\ errorPrinted' = (errorPrinted \/ answer # "ok")
            /\ UNCHANGED <<validatorsLeft, completed>>
    /\ UNCHANGED <<options, unbondRequests, unbondFailures, unbondCount, delegationCount,
                   listed>>

\* one turn of the loop over the validators: the unbond request is answered with
\* events of which n fall inside the window, or fails and the validator is skipped;
\* after the last validator the list is returned: an empty one gives the "No
\* unstaking transactions found" message, another is displayed, exported when asked
\* (the write succeeds or throws), and the completion message printed
ValidatorUnbondsAnswered(answer, n, written) ==
    /\ step = "unbonds"
    /\ validatorsLeft > 0
    /\ validatorsLeft' = validatorsLeft - 1
    /\ unbondRequests' = unbondRequests + 1
    /\ unbondFailures' = IF answer = "ok" THEN unbondFailures ELSE unbondFailures + 1
    /\ LET count == IF answer = "ok" THEN unbondCount + n ELSE unbondCount
           printed == errorPrinted \/ answer # "ok"
       IN /\ unbondCount' = count
          /\ IF validatorsLeft > 1
             THEN /\ errorPrinted' = printed
                  /\ UNCHANGED <<step, failed, completed, exitStatus, raised>>
             ELSE IF count > 0 /\ exportOption /\ ~written
                  THEN Caught /\ failed' = failed \cup {"export"} /\ UNCHANGED completed
                  ELSE /\ EndsNormally
                       /\ completed' = (count > 0)
                       /\ errorPrinted' = printed
                       /\ UNCHANGED failed
    /\ UNCHANGED <<options, delegationCount, listed>>

\* fetchValidatorInfo returns the info, or {} after printing the error
ValidatorInfoAnswered(answer) ==
    /\ step = "fetchValidatorInfo"
    /\ step' = "fetchUnbonds"
    /\ failed' = IF answer = "ok" THEN failed ELSE failed \cup {"validatorInfo"}
    /\ errorPrinted' = (errorPrinted \/ answer # "ok")
    /\ UNCHANGED <<options, validatorsLeft, unbondRequests, unbondFailures, unbondCount,
                   delegationCount, completed, listed, exitStatus, raised>>

\* fetchUnbonds returns the events inside the window, or [] after printing the error;
\* biggest-unbonds <id> then displays getBiggestUnbonds
UnbondsAnswered(answer, n, written) ==
    /\ step = "fetchUnbonds"
    /\ unbondRequests' = unbondRequests + 1
    /\ unbondFailures' = IF answer = "ok" THEN unbondFailures ELSE unbondFailures + 1
    /\ LET count == IF answer = "ok" THEN n ELSE 0
           printed == errorPrinted \/ answer # "ok"
           fails == IF answer = "ok" THEN failed ELSE failed \cup {"unbonds"}
       IN /\ unbondCount' = count
          /\ IF command \in Analyses
             THEN /\ step' = "fetchDelegations"
                  /\ failed' = fails
                  /\ errorPrinted' = printed
                  /\ UNCHANGED <<completed, exitStatus, raised>>
             ELSE IF count > 0 /\ exportOption /\ ~written
                  THEN Caught /\ failed' = fails \cup {"export"} /\ UNCHANGED completed
                  ELSE /\ EndsNormally
                       /\ completed' = (count > 0)
                       /\ failed' = fails
                       /\ errorPrinted' = printed
    /\ UNCHANGED <<options, validatorsLeft, delegationCount, listed>>

\* fetchDelegations: fetchDelegationEvents returns the events, or [] after printing
\* the error or the missing-key warning
DelegationsAnswered(answer, n) ==
    /\ step = "fetchDelegations"
    /\ step' = "filterDelegatorAddresses"
    /\ delegationCount' = IF answer = "ok" THEN n ELSE 0
    /\ failed' = IF answer = "ok" THEN failed ELSE failed \cup {"delegations"}
    /\ errorPrinted' = (errorPrinted \/ answer # "ok")
    /\ UNCHANGED <<options, validatorsLeft, unbondRequests, unbondFailures, unbondCount,
                   completed, listed, exitStatus, raised>>

\* filterDelegatorAddresses returns at once when there is no address, and else
\* awaits the filter, which returns or throws; then printAnalysisSummary and the
\* write of exportData begin
Filtered(answer) ==
    /\ step = "filterDelegatorAddresses"
    /\ IF unbondCount + delegationCount = 0 \/ answer = "ok"
       THEN /\ step' = "exportData"
            /\ UNCHANGED <<failed, errorPrinted, exitStatus, raised>>
       ELSE Caught /\ failed' = failed \cup {"filter"}
    /\ UNCHANGED <<options, validatorsLeft, unbondRequests, unbondFailures, unbondCount,
                   delegationCount, completed, listed>>

\* const delegatorAddresses = tracker.getIndividualDelegatorAddresses(), the listing
\* and the completion message
ListAddresses ==
    IF IsFunction("getIndividualDelegatorAddresses")
    THEN /\ EndsNormally
         /\ listed' = TRUE
         /\ completed' = TRUE
         /\ UNCHANGED errorPrinted
    ELSE Caught /\ UNCHANGED <<listed, completed>>

\* exportData's write ends: runFullAnalysis returns, and the charts are generated
\* when asked
Exported(answer) ==
    /\ step = "exportData"
    /\ IF answer # "ok"
       THEN Caught /\ failed' = failed \cup {"export"} /\ UNCHANGED <<listed, completed>>
       ELSE IF charts
            THEN /\ step' = "generateAllCharts"
                 /\ UNCHANGED <<failed, errorPrinted, completed, listed, exitStatus,
                                raised>>
            ELSE ListAddresses /\ UNCHANGED failed
    /\ UNCHANGED <<options, validatorsLeft, unbondRequests, unbondFailures, unbondCount,
                   delegationCount>>

\* generateAllCharts ends
ChartsGenerated(answer) ==
    /\ step = "generateAllCharts"
    /\ IF answer # "ok"
       THEN Caught /\ failed' = failed \cup {"charts"} /\ UNCHANGED <<listed, completed>>
       ELSE ListAddresses /\ UNCHANGED failed
    /\ UNCHANGED <<options, validatorsLeft, unbondRequests, unbondFailures, unbondCount,
                   delegationCount>>

Answers == {"ok", "error"}

NextCli ==
    \/ Invoke /\ UNCHANGED notCli
    \/ \E answer \in Answers, n \in 0..MaxValidators :
          AllValidatorsAnswered(answer, n) /\ UNCHANGED notCli
    \/ \E answer \in Answers, n \in 0..MaxUnbonds, written \in BOOLEAN :
          ValidatorUnbondsAnswered(answer, n, written) /\ UNCHANGED notCli
    \/ \E answer \in Answers : ValidatorInfoAnswered(answer) /\ UNCHANGED notCli
    \/ \E answer \in Answers, n \in 0..MaxUnbonds, written \in BOOLEAN :
          UnbondsAnswered(answer, n, written) /\ UNCHANGED notCli
    \/ \E answer \in Answers, n \in 0..MaxUnbonds :
          DelegationsAnswered(answer, n) /\ UNCHANGED notCli
    \/ \E answer \in Answers : Filtered(answer) /\ UNCHANGED notCli
    \/ \E answer \in Answers : Exported(answer) /\ UNCHANGED notCli
    \/ \E answer \in Answers : ChartsGenerated(answer) /\ UNCHANGED notCli

-----------------------------------------------------------------------------
(* EthereumDelegationTracker.formatUnits(value, decimals = 18). A BigInt is the
   sequence of its decimal digits without leading zeros (<<"0">> for 0n), so that
   values above 2^53 and above 2^64 are exact; a string is the sequence of its
   characters. *)

\* the decimal digits the values are written with
Digits == {"0", "1", "9"}

\* the places of the fraction, counted from the decimal point, that may hold a
\* non-zero digit
FractionPlaces == {1, 17, 18}

\* the canonical digit sequences of at most n digits; <<"0">> is zero
NaturalsOfLength(n) ==
    {<<"0">>} \cup
    UNION {{ds \in [1..len -> Digits] : ds[1] # "0"} : len \in 1..n}

\* the 18 low digits of a value, non-zero only at the fraction places
Fractions ==
    {[i \in 1..Decimals |-> IF i \in FractionPlaces THEN f[i] ELSE "0"] :
        f \in [FractionPlaces -> Digits]}

\* the values: integer * 10^18 + fraction
Values ==
    {StripZeros(int \o frac) :
        int \in NaturalsOfLength(MaxIntegerDigits), frac \in Fractions}

\* val / base for base = 10n ** BigInt(decimals): the digits above the low ones
DivBase(digits, decimals) ==
    IF Len(digits) <= decimals THEN <<"0">>
    ELSE SubSeq(digits, 1, Len(digits) - decimals)

\* val % base: the value of the low digits
ModBase(digits, decimals) ==
    StripZeros(SubSeq(digits, Max(1, Len(digits) - decimals + 1), Len(digits)))

\* mutant of PadStart: no padding
PadStartNothing(str, targetLength) == str

\* str.padStart(targetLength, '0')
PadStart(str, targetLength) ==
    IF Len(str) >= targetLength THEN str
    ELSE [i \in 1..(targetLength - Len(str)) |-> "0"] \o str

\* str.replace(/0+$/, '')
TrimTrailingZeros(str) ==
    LET nonZero == {i \in 1..Len(str) : str[i] # "0"}
    IN IF nonZero = {} THEN <<>>
       ELSE SubSeq(str, 1, CHOOSE i \in nonZero : \A j \in nonZero : i >= j)

\* (negative ? '-' : '') + integer.toString() + (fracStr ? '.' + fracStr : '')
FormatUnits(isNegative, magnitude, decimals) ==
    LET integer == DivBase(magnitude, decimals)
        fraction == ModBase(magnitude, decimals)
        fracStr == TrimTrailingZeros(PadStart(fraction, decimals))
    IN (IF isNegative THEN <<"-">> ELSE <<>>) \o integer \o
       (IF fracStr # <<>> THEN <<".">> \o fracStr ELSE <<>>)

UnitsIdle ==
    /\ negative = FALSE
    /\ val = <<"0">>
    /\ formatted = <<>>

\* value < 0n holds of no zero
UnitsStart ==
    /\ val \in Values
    /\ negative \in (IF val = <<"0">> THEN {FALSE} ELSE BOOLEAN)
    /\ formatted = <<>>

formatUnits ==
    /\ formatted = <<>>
    /\ formatted' = FormatUnits(negative, val, Decimals)
    /\ UNCHANGED <<negative, val>>

NextUnits == formatUnits /\ UNCHANGED notUnits

-----------------------------------------------------------------------------
(* ValidatorTracker.runFullAnalysis: fetchUnbonds, fetchDelegations,
   filterDelegatorAddresses and analyzeStakeChanges *)

\* the users of the staking API's unbond records, as the API reports them; the users
\* of the delegation events are lower-cased by processDelegationEvents
UnbondUsers ==
    {"0x5E3346444010135322268a0CA24B70E5b1d0D52A",
     "0X8F3CF7AD23CD3CADBD9735AFF958023239C6A063",
     "0x00000000000000000000000000000000000000Ab",
     "0x00000000000000000000000000000000000000ab"}
DelegationUsers == {ToLowerCase(u) : u \in UnbondUsers}

PolAmounts == {1, 2}

UnbondRecords == [user : UnbondUsers, amountPol : PolAmounts]
DelegationRecords == [user : DelegationUsers, amountPol : PolAmounts]

\* the options the analyze command and ValidatorStakeTracker pass: filterInstitutional
\* is always true
TrackerOptions == {o \in ExcludeOptions : o.excludeInstitutional}

NoAnalysis ==
    [totalUnbonded |-> -1, totalDelegated |-> -1, netChange |-> 0,
     addressUnbonds |-> {}, addressDelegations |-> {},
     unbondEvents |-> -1, delegationEvents |-> -1, individualDelegatorsCount |-> -1]

RECURSIVE SetOrder(_)
\* Array.from(new Set(..)) of the values added in order: each value once, at the place
\* of its first occurrence
SetOrder(added) ==
    IF added = <<>> THEN <<>>
    ELSE LET before == SetOrder(SubSeq(added, 1, Len(added) - 1))
             last == added[Len(added)]
         IN IF \E i \in 1..Len(before) : before[i] = last THEN before
            ELSE Append(before, last)

\* allAddresses: the users of the delegations, then those of the unbonds
AllAddresses(delegations, unbonds) ==
    SetOrder([i \in 1..Len(delegations) |-> delegations[i].user] \o
             [i \in 1..Len(unbonds) |-> unbonds[i].user])

\* this.filterResults.individualDelegators.map(i => i.address)
IndividualAddresses(entries) ==
    LET kept == SelectSeq(entries, LAMBDA e : e.list = "individualDelegators")
    IN [i \in 1..Len(kept) |-> kept[i].address]

\* a filtered set that holds every user
HasAnyUser(filtered, user) == TRUE

\* filteredSet.has(user)
FilteredSetHas(filtered, user) == \E i \in 1..Len(filtered) : filtered[i] = user

\* the events of the list that analyzeStakeChanges counts
Counted(events, filtered) ==
    SelectSeq(events, LAMBDA e : FilteredSetHas(filtered, e.user))

RECURSIVE TotalOf(_)
\* total += Number(e.amountPol) over the events
TotalOf(events) ==
    IF events = <<>> THEN 0 ELSE Head(events).amountPol + TotalOf(Tail(events))

\* addressUnbonds / addressDelegations: the keys e.user and the sum under each key
PerAddress(events) ==
    {<<events[i].user, TotalOf(SelectSeq(events, LAMBDA e : e.user = events[i].user))>> :
        i \in 1..Len(events)}

\* analyzeStakeChanges()
AnalyzeStakeChanges(unbonds, delegations, filtered) ==
    LET countedUnbonds == Counted(unbonds, filtered)
        countedDelegations == Counted(delegations, filtered)
    IN [totalUnbonded |-> TotalOf(countedUnbonds),
        totalDelegated |-> TotalOf(countedDelegations),
        netChange |-> TotalOf(countedDelegations) - TotalOf(countedUnbonds),
        addressUnbonds |-> PerAddress(countedUnbonds),
        addressDelegations |-> PerAddress(countedDelegations),
        unbondEvents |-> Len(countedUnbonds),
        delegationEvents |-> Len(countedDelegations),
        individualDelegatorsCount |-> Len(filtered)]

AnalysisIdle ==
    /\ trackerOptions = DefaultOptions
    /\ trackerStep = "fetchUnbonds"
    /\ unbondData = <<>>
    /\ delegationData = <<>>
    /\ trackerResults = NoResults
    /\ filteredDelegators = <<>>
    /\ analysis = NoAnalysis

\* new ValidatorTracker(validatorId, months, options)
AnalysisStart ==
    /\ trackerOptions \in TrackerOptions
    /\ trackerStep = "fetchUnbonds"
    /\ unbondData = <<>>
    /\ delegationData = <<>>
    /\ trackerResults = NoResults
    /\ filteredDelegators = <<>>
    /\ analysis = NoAnalysis

\* await this.fetchUnbonds(): the records inside the window, users as reported
FetchUnbonds(events) ==
    /\ trackerStep = "fetchUnbonds"
    /\ unbondData' = events
    /\ trackerStep' = "fetchDelegations"
    /\ UNCHANGED <<trackerOptions, delegationData, trackerResults, filteredDelegators,
                   analysis>>

\* await this.fetchDelegations()
FetchDelegations(events) ==
    /\ trackerStep = "fetchDelegations"
    /\ Len(unbondData) + Len(events) <= MaxTrackerEvents
    /\ delegationData' = events
    /\ trackerStep' = "filterDelegatorAddresses"
    /\ UNCHANGED <<trackerOptions, unbondData, trackerResults, filteredDelegators,
                   analysis>>

\* await this.filterDelegatorAddresses(): returns at once when there is no address
TrackerFilterDelegatorAddresses ==
    /\ trackerStep = "filterDelegatorAddresses"
    /\ trackerStep' = "printAnalysisSummary"
    /\ LET addressArray == AllAddresses(delegationData, unbondData)
           entries == FilterFrom({}, addressArray, trackerOptions)[1]
       IN IF addressArray = <<>>
          THEN UNCHANGED <<trackerResults, filteredDelegators>>
          ELSE /\ trackerResults' = entries
               /\ filteredDelegators' = IndividualAddresses(entries)
    /\ UNCHANGED <<trackerOptions, unbondData, delegationData, analysis>>

\* const analysis = this.printAnalysisSummary()
PrintAnalysisSummary ==
    /\ trackerStep = "printAnalysisSummary"
    /\ trackerStep' = "exportData"
    /\ analysis' = AnalyzeStakeChanges(unbondData, delegationData, filteredDelegators)
    /\ UNCHANGED <<trackerOptions, unbondData, delegationData, trackerResults,
                   filteredDelegators>>

EventLists(records, n) == UNION {[1..len -> records] : len \in 0..n}

NextAnalysis ==
    \/ \E events \in EventLists(UnbondRecords, MaxTrackerEvents) :
          FetchUnbonds(events) /\ UNCHANGED notAnalysis
    \/ \E events \in EventLists(DelegationRecords, MaxTrackerEvents) :
          FetchDelegations(events) /\ UNCHANGED notAnalysis
    \/ TrackerFilterDelegatorAddresses /\ UNCHANGED notAnalysis
    \/ PrintAnalysisSummary /\ UNCHANGED notAnalysis

-----------------------------------------------------------------------------
(* Fund-flow tracking: the combined and delegator-tracking actions of the CLI,
   FundFlowTracker.trackDelegatorFundFlows, generateFlowReport, trackAddressOutflows
   and getPolygonTransactions / getEthereumTransactions. Addresses are their indexes
   in the list, amounts are whole POL. *)

FlowCommands == {"combined", "delegator-tracking"}

\* the values of --threshold: the default '1' and two others
ThresholdOptions == {DefaultThresholdOption, DefaultAmountThreshold, 20}

\* the values of --max-addresses: the default '20' and a small one
MaxAddressesOptions == {1, DefaultMaxAddressesOption}

\* the amounts of the transactions the explorers list
TransferAmounts == {0, 5, 15}

\* a transaction of the list: sent by the analysed address or by another one
Transactions == [outgoing : BOOLEAN, amount : TransferAmounts]

NoReport == [addressesAnalyzed |-> -1, movements |-> <<>>]

\* unbondAddresses.slice(0, end).length
SliceCount(length, end) == Min(length, Max(end, 0))

\* the threshold trackAddressOutflows works with when generateFlowReport calls it:
\* trackAddressOutflows(address), so the default of its second parameter
OutflowThreshold(amountThreshold) == DefaultAmountThreshold

\* tx.from.toLowerCase() === address.toLowerCase() && value / 1e18 >= threshold
IsMovement(tx, threshold) == tx.outgoing /\ tx.amount >= threshold

\* const maxAddresses = Math.min(unbonderAddresses.length, 10)
ReportMaxAddresses(length) == Min(length, ReportAddressCap)

FlowIdle ==
    /\ flowCommand = "none"
    /\ thresholdOption = DefaultThresholdOption
    /\ maxAddressesOption = DefaultMaxAddressesOption
    /\ addressCount = 0
    /\ toAnalyze = -1
    /\ flowIndex = 0
    /\ transfers = <<>>
    /\ allMovements = <<>>
    /\ tracked = {}
    /\ flowReport = NoReport

FlowStart ==
    /\ flowCommand \in FlowCommands
    /\ thresholdOption \in ThresholdOptions
    /\ maxAddressesOption \in MaxAddressesOptions
    /\ flowCommand = "delegator-tracking" => maxAddressesOption = DefaultMaxAddressesOption
    /\ addressCount \in 0..MaxFlowAddresses
    /\ flowCommand = "delegator-tracking" => addressCount > 0
    /\ toAnalyze = -1
    /\ flowIndex = 0
    /\ transfers = <<>>
    /\ allMovements = <<>>
    /\ tracked = {}
    /\ flowReport = NoReport

flowOptions == <<flowCommand, thresholdOption, maxAddressesOption, addressCount>>

\* the command reaches trackDelegatorFundFlows: combined slices the unbond addresses
\* and skips the tracking when there is none, delegator-tracking passes its arguments
TrackDelegatorFundFlows ==
    /\ toAnalyze = -1
    /\ toAnalyze' = IF flowCommand = "combined"
                    THEN SliceCount(addressCount, maxAddressesOption)
                    ELSE addressCount
    /\ UNCHANGED <<flowOptions, flowIndex, transfers, allMovements, tracked, flowReport>>

\* one turn of generateFlowReport's loop: trackAddressOutflows(address) lists the
\* address's transactions (none when the request fails) and keeps the movements
TrackAddressOutflows(txs) ==
    /\ toAnalyze > 0
    /\ flowReport = NoReport
    /\ flowIndex < ReportMaxAddresses(toAnalyze)
    /\ Len(transfers) + Len(txs) <= MaxTransfers
    /\ flowIndex' = flowIndex + 1
    /\ tracked' = tracked \cup {flowIndex + 1}
    /\ LET answered == [i \in 1..Len(txs) |->
                        [address |-> flowIndex + 1, outgoing |-> txs[i].outgoing,
                         amount |-> txs[i].amount]]
       IN /\ transfers' = transfers \o answered
          /\ allMovements' = allMovements \o
                SelectSeq(answered,
                          LAMBDA tx : IsMovement(tx, OutflowThreshold(thresholdOption)))
    /\ UNCHANGED <<flowOptions, toAnalyze, flowReport>>

\* the loop is over: fullReport is written and returned
WriteFlowReport ==
    /\ toAnalyze > 0 \/ (toAnalyze = 0 /\ flowCommand = "delegator-tracking")
    /\ flowReport = NoReport
    /\ flowIndex = ReportMaxAddresses(toAnalyze)
    /\ flowReport' = [addressesAnalyzed |-> toAnalyze, movements |-> allMovements]
    /\ UNCHANGED <<flowOptions, toAnalyze, flowIndex, transfers, allMovements, tracked>>

NextFlow ==
    \/ TrackDelegatorFundFlows /\ UNCHANGED notFlow
    \/ \E txs \in UNION {[1..n -> Transactions] : n \in 0..MaxTransfers} :
          TrackAddressOutflows(txs) /\ UNCHANGED notFlow
    \/ WriteFlowReport /\ UNCHANGED notFlow

-----------------------------------------------------------------------------
(* Delegation summary: EthereumDelegationTracker.getDelegationSummary and its caller
   testEthereumDelegationTracking *)

MaxSummaryEvents == 3

SummaryUsers == {"0xa1", "0xb2"}

\* amounts in wei of the fetched events
SummaryAmounts == {1, 2}

SummaryEventLists ==
    UNION {[1..n -> [user : SummaryUsers, amountWei : SummaryAmounts]] :
              n \in 0..MaxSummaryEvents}

NoSummary == [type |-> "none"]

\* the template string `Total Delegated: ${totalPol} POL` with, when count > 0, the
\* suffix ` (${count} events)`
SummaryString(totalWei, count) ==
    [type |-> "string", totalWei |-> totalWei, count |-> count]

RECURSIVE TotalDelegatedWei(_)
TotalDelegatedWei(events) ==
    IF events = <<>> THEN 0
    ELSE events[1].amountWei + TotalDelegatedWei(Tail(events))

\* getDelegationSummary: the value returned for the fetched events
GetDelegationSummary(events) ==
    IF Len(events) = 0 THEN SummaryString(0, 0)
    ELSE SummaryString(TotalDelegatedWei(events), Len(events))

\* a property read on a returned value: a string has none of the summary's fields
HasProperty(value, name) == value.type = "object" /\ name \in DOMAIN value

SummaryIdle ==
    /\ summaryEvents = <<>>
    /\ summary = NoSummary
    /\ summaryStep = "idle"
    /\ testOutcome = "none"

SummaryStart ==
    /\ summaryEvents \in SummaryEventLists
    /\ summary = NoSummary
    /\ summaryStep = "start"
    /\ testOutcome = "none"

\* await tracker.getDelegationSummary(45, 1)
getDelegationSummary ==
    /\ summaryStep = "start"
    /\ summary' = GetDelegationSummary(summaryEvents)
    /\ summaryStep' = "returned"
    /\ UNCHANGED <<summaryEvents, testOutcome>>

\* the caller prints summary.totalDelegated.toLocaleString(), summary.delegationEvents
\* and summary.uniqueDelegators; a read through an absent property raises a TypeError,
\* which the caller catches and prints
TestPrintsSummary ==
    /\ summaryStep = "returned"
    /\ testOutcome' = IF HasProperty(summary, "totalDelegated")
                         THEN "printed" ELSE "TypeError"
    /\ summaryStep' = "tested"
    /\ UNCHANGED <<summaryEvents, summary>>

NextSummary ==
    \/ getDelegationSummary /\ UNCHANGED notSummary
    \/ TestPrintsSummary /\ UNCHANGED notSummary

-----------------------------------------------------------------------------
(* The time window: how EthereumDelegationTracker.fetchDelegationEvents with
   processDelegationEvents and getBlockTimestamp, and
   ValidatorTracker.fetchAllDelegatorsAcrossValidators, find the start block and
   keep or drop the logs answered. Times are in seconds relative to the block
   closest before the cutoff. *)

MaxWindowLogs == 2

WindowOps == {"fetchDelegationEvents", "fetchAllDelegatorsAcrossValidators"}

\* the time of the block getblocknobytime names (closest: 'before'), the requested
\* cutoff just after it, and the time of the run
StartBlockTime == CutoffTimestamp
WindowCutoff == StartBlockTime + 1
NowTime == WindowCutoff + 2

\* block times: 0 is long before the window, NowTime - 1 the newest block
BlockTimes == 0..(NowTime - 1)

\* a log Etherscan answers: the time of its block, and whether it carries timeStamp
WindowLogKinds == [blockTime : BlockTimes, hasTimeStamp : BOOLEAN]

\* answers to getblocknobytime: a block, a status other than '1', or a failed request
StartBlockAnswers == {"ok", "status0", "error"}

\* fromBlock after the start block request: getBlockFromTimestamp throws on a status
\* other than '1' and estimates in its catch; fetchAllDelegatorsAcrossValidators takes
\* block 0 on such a status and estimates only on a failed request
FromBlockAfter(op, answer) ==
    IF answer = "ok" THEN "resolved"
    ELSE IF op = "fetchAllDelegatorsAcrossValidators" /\ answer = "status0" THEN "genesis"
    ELSE "estimated"

\* the oldest block time a query from that fromBlock can answer: an estimate by 12 s
\* blocks may lie before the window
OldestAnswered(from) == IF from = "resolved" THEN StartBlockTime ELSE 0

\* getBlockTimestamp(blockNumber): the block's timestamp, or in its catch
\* Math.floor(Date.now() / 1000)
GetBlockTimestamp(log, lookupOk) == IF lookupOk THEN log.blockTime ELSE NowTime

\* processDelegationEvents: parseInt(event.timeStamp, 16) || await getBlockTimestamp(..)
BlockTimestamp(log, lookupOk) ==
    IF log.hasTimeStamp THEN log.blockTime ELSE GetBlockTimestamp(log, lookupOk)

\* if (blockTimestamp < cutoffTimestamp) continue; fetchAllDelegatorsAcrossValidators
\* has no such test
DropsOld(op, blockTimestamp) ==
    op = "fetchDelegationEvents" /\ blockTimestamp < WindowCutoff

\* the timestamp the pushed event reports: blockTimestamp, or for
\* fetchAllDelegatorsAcrossValidators new Date(parseInt(event.timeStamp, 16) * 1000)
ReportedTimestamp(op, log, lookupOk) ==
    IF op = "fetchDelegationEvents" THEN BlockTimestamp(log, lookupOk)
    ELSE IF log.hasTimeStamp THEN log.blockTime ELSE NaN

WindowIdle ==
    /\ windowOp = "none"
    /\ windowStep = "idle"
    /\ windowFrom = "none"
    /\ windowLogs = <<>>
    /\ windowCursor = 0
    /\ windowEvents = <<>>

WindowStart ==
    /\ windowOp \in WindowOps
    /\ windowStep = "resolve"
    /\ windowFrom = "none"
    /\ windowLogs = <<>>
    /\ windowCursor = 0
    /\ windowEvents = <<>>

\* the getblocknobytime request is answered, and with it, when the code estimates,
\* the eth_blockNumber request: a failure of that one ends the operation with []
StartBlockAnswered(answer, headOk) ==
    /\ windowStep = "resolve"
    /\ windowFrom' = FromBlockAfter(windowOp, answer)
    /\ windowStep' = IF windowFrom' = "estimated" /\ ~headOk THEN "returned" ELSE "getLogs"
    /\ UNCHANGED <<windowOp, windowLogs, windowCursor, windowEvents>>

\* the getLogs request from fromBlock to 'latest' is answered with status '1'; any
\* other status, or a failure, returns []
WindowLogsAnswered(ok, logs) ==
    /\ windowStep = "getLogs"
    /\ \A i \in 1..Len(logs) : logs[i].blockTime >= OldestAnswered(windowFrom)
    /\ IF ok THEN /\ windowLogs' = logs
                  /\ windowStep' = "process"
             ELSE /\ windowStep' = "returned"
                  /\ UNCHANGED windowLogs
    /\ UNCHANGED <<windowOp, windowFrom, windowCursor, windowEvents>>

\* one round of the loop over the logs
ProcessWindowLog(lookupOk) ==
    /\ windowStep = "process"
    /\ windowCursor < Len(windowLogs)
    /\ LET i == windowCursor + 1
           log == windowLogs[i]
       IN /\ windowEvents' =
                IF DropsOld(windowOp, BlockTimestamp(log, lookupOk)) THEN windowEvents
                ELSE Append(windowEvents,
                            [log |-> i,
                             timestamp |-> ReportedTimestamp(windowOp, log, lookupOk)])
          /\ windowCursor' = i
    /\ UNCHANGED <<windowOp, windowStep, windowFrom, windowLogs>>

\* the loop is over: processDelegationEvents sorts by timestamp
ReturnWindowEvents ==
    /\ windowStep = "process"
    /\ windowCursor = Len(windowLogs)
    /\ windowStep' = "returned"
    /\ windowEvents' = IF windowOp = "fetchDelegationEvents"
                       THEN SortByTimestamp(windowEvents)
                       ELSE windowEvents
    /\ UNCHANGED <<windowOp, windowFrom, windowLogs, windowCursor>>

NextWindow ==
    \/ \E answer \in StartBlockAnswers, headOk \in BOOLEAN :
          StartBlockAnswered(answer, headOk) /\ UNCHANGED notWindow
    \/ \E ok \in BOOLEAN,
          logs \in UNION {[1..n -> WindowLogKinds] : n \in 0..MaxWindowLogs} :
          WindowLogsAnswered(ok, logs) /\ UNCHANGED notWindow
    \/ \E lookupOk \in BOOLEAN : ProcessWindowLog(lookupOk) /\ UNCHANGED notWindow
    \/ ReturnWindowEvents /\ UNCHANGED notWindow

-----------------------------------------------------------------------------
(* Specifications: one per part of the program *)

\* a fetcher that no run has started
FetchIdle ==
    /\ fetcher = "ActiveDelegatorsFetcher"
    /\ batchSize = DefaultBatchSize
    /\ fromBlock = 1
    /\ toBlock = 1
    /\ pc = "idle"
    /\ preCalls = 0
    /\ rpcEndpoint = 0
    /\ rpcMethod = "none"
    /\ retryCount = 0
    /\ stack = <<>>
    /\ mainLogs = NoLogs
    /\ exitCode = -1
    /\ fileWritten = FALSE
    /\ rejectsLeft = 0
    /\ tried = <<>>
    /\ sawTooLarge = FALSE
    /\ sawOther = FALSE
    /\ lastCall = "none"
    /\ lastError = "none"
    /\ thrownDepth = 0
    /\ maxDepth = 0
    /\ queries = <<>>
    /\ anyError = FALSE

InitFetch ==
    /\ FetchStart
    /\ RankIdle /\ DecodeIdle /\ BatchIdle /\ ClassifyIdle
    /\ VizIdle /\ LookupIdle /\ CliIdle /\ UnitsIdle /\ AnalysisIdle /\ FlowIdle /\ SummaryIdle /\ WindowIdle
SpecFetch == InitFetch /\ [][NextFetch]_vars

InitRank ==
    /\ RankStart
    /\ FetchIdle /\ DecodeIdle /\ BatchIdle /\ ClassifyIdle
    /\ VizIdle /\ LookupIdle /\ CliIdle /\ UnitsIdle /\ AnalysisIdle /\ FlowIdle /\ SummaryIdle /\ WindowIdle
SpecRank == InitRank /\ [][NextRank]_vars

InitDecode ==
    /\ DecodeStart
    /\ FetchIdle /\ RankIdle /\ BatchIdle /\ ClassifyIdle
    /\ VizIdle /\ LookupIdle /\ CliIdle /\ UnitsIdle /\ AnalysisIdle /\ FlowIdle /\ SummaryIdle /\ WindowIdle
SpecDecode == InitDecode /\ [][NextDecode]_vars

InitBatch ==
    /\ BatchStart
    /\ FetchIdle /\ RankIdle /\ DecodeIdle /\ ClassifyIdle
    /\ VizIdle /\ LookupIdle /\ CliIdle /\ UnitsIdle /\ AnalysisIdle /\ FlowIdle /\ SummaryIdle /\ WindowIdle
SpecBatch == InitBatch /\ [][NextBatch]_vars

InitClassify ==
    /\ ClassifyStart
    /\ FetchIdle /\ RankIdle /\ DecodeIdle /\ BatchIdle
    /\ VizIdle /\ LookupIdle /\ CliIdle /\ UnitsIdle /\ AnalysisIdle /\ FlowIdle /\ SummaryIdle /\ WindowIdle
SpecClassify == InitClassify /\ [][NextClassify]_vars

InitViz ==
    /\ VizStart
    /\ FetchIdle /\ RankIdle /\ DecodeIdle /\ BatchIdle
    /\ ClassifyIdle /\ LookupIdle /\ CliIdle /\ UnitsIdle /\ AnalysisIdle /\ FlowIdle /\ SummaryIdle /\ WindowIdle
SpecViz == InitViz /\ [][NextViz]_vars

InitLookup ==
    /\ LookupStart
    /\ FetchIdle /\ RankIdle /\ DecodeIdle /\ BatchIdle
    /\ ClassifyIdle /\ VizIdle /\ CliIdle /\ UnitsIdle /\ AnalysisIdle /\ FlowIdle /\ SummaryIdle /\ WindowIdle
SpecLookup == InitLookup /\ [][NextLookup]_vars

InitCli ==
    /\ CliStart
    /\ FetchIdle /\ RankIdle /\ DecodeIdle /\ BatchIdle
    /\ ClassifyIdle /\ VizIdle /\ LookupIdle /\ UnitsIdle /\ AnalysisIdle /\ FlowIdle /\ SummaryIdle /\ WindowIdle
SpecCli == InitCli /\ [][NextCli]_vars

InitUnits ==
    /\ UnitsStart
    /\ FetchIdle /\ RankIdle /\ DecodeIdle /\ BatchIdle
    /\ ClassifyIdle /\ VizIdle /\ LookupIdle /\ CliIdle /\ AnalysisIdle /\ FlowIdle /\ SummaryIdle /\ WindowIdle
SpecUnits == InitUnits /\ [][NextUnits]_vars

InitAnalysis ==
    /\ AnalysisStart
    /\ FetchIdle /\ RankIdle /\ DecodeIdle /\ BatchIdle
    /\ ClassifyIdle /\ VizIdle /\ LookupIdle /\ CliIdle /\ UnitsIdle /\ FlowIdle /\ SummaryIdle /\ WindowIdle
SpecAnalysis == InitAnalysis /\ [][NextAnalysis]_vars

InitFlow ==
    /\ FlowStart
    /\ FetchIdle /\ RankIdle /\ DecodeIdle /\ BatchIdle /\ ClassifyIdle
    /\ VizIdle /\ LookupIdle /\ CliIdle /\ UnitsIdle /\ AnalysisIdle /\ SummaryIdle /\ WindowIdle
SpecFlow == InitFlow /\ [][NextFlow]_vars

InitSummary ==
    /\ SummaryStart
    /\ FetchIdle /\ RankIdle /\ DecodeIdle /\ BatchIdle /\ ClassifyIdle
    /\ VizIdle /\ LookupIdle /\ CliIdle /\ UnitsIdle /\ AnalysisIdle /\ FlowIdle /\ WindowIdle
SpecSummary == InitSummary /\ [][NextSummary]_vars

InitWindow ==
    /\ WindowStart
    /\ FetchIdle /\ RankIdle /\ DecodeIdle /\ BatchIdle /\ ClassifyIdle
    /\ VizIdle /\ LookupIdle /\ CliIdle /\ UnitsIdle /\ AnalysisIdle /\ FlowIdle
    /\ SummaryIdle
SpecWindow == InitWindow /\ [][NextWindow]_vars

-----------------------------------------------------------------------------
(* Claims about the log fetcher, checked under SpecFetch *)

FetchLogsReturned == mainLogs # NoLogs

RECURSIVE Coalesce(_)
\* adjacent chunks that continue each other merged into one chunk
Coalesce(chunks) ==
    IF Len(chunks) <= 1 THEN chunks
    ELSE LET rest == Coalesce(Tail(chunks))
             c == Head(chunks)
         IN IF c.to + 1 = Head(rest).from
            THEN <<[from |-> c.from, to |-> Head(rest).to]>> \o Tail(rest)
            ELSE <<c>> \o rest

\* consecutive, non-empty ranges that start at a and end at b
IsPartition(qs, a, b) ==
    /\ Len(qs) >= 1
    /\ qs[1].from = a
    /\ qs[Len(qs)].to = b
    /\ \A i \in 1..Len(qs) : qs[i].from <= qs[i].to
    /\ \A i \in 1..(Len(qs) - 1) : qs[i + 1].from = qs[i].to + 1

\* C1: whenever fetchLogs returns, whatever too-large rejections were answered and at
\* whatever depth, the ranges of the queries that succeeded are disjoint and cover
\* [fromBlock, toBlock] exactly, the returned list holds the logs of each of them once,
\* and it equals what one query over the whole range returns.
C1_ReturnedLogsPartitionRange ==
    FetchLogsReturned =>
        /\ IsPartition(queries, fromBlock, toBlock)
        /\ mainLogs = queries
        /\ Coalesce(mainLogs) = LogsOf(fromBlock, toBlock)

\* fetchLogs returned after a split inside a split
C1_Witness ==
    /\ FetchLogsReturned
    /\ maxDepth >= 3
    /\ rejectsLeft = 0

\* C2: an eth_getLogs call that some endpoint rejected as too large always ends with
\* fetchLogs splitting the range (it neither fails nor takes another answer).
C2_TooLargeAlwaysSplits ==
    (rpcMethod = "none" /\ lastCall # "none" /\ sawTooLarge) => lastCall = "split"

\* C3: when a call has failed on its last retry, every endpoint of the list has been
\* tried exactly once for it.
C3_EveryEndpointTriedOnce ==
    (rpcMethod = "none" /\ lastError # "none") =>
        \A e \in 0..(NumEndpoints - 1) :
            Cardinality({i \in 1..Len(tried) : tried[i] = e}) = 1

\* C4: once an eth_getLogs call has thrown an error that is not a too-large rejection,
\* whatever the depth, main has exited with code 1, no logs were handed to main and no
\* file is written.
C4_OtherErrorAbortsRun ==
    (lastError # "none" /\ ~IsTooLarge(lastError)) =>
        /\ pc = "exited"
        /\ exitCode = 1
        /\ ~fileWritten
        /\ mainLogs = NoLogs

\* the error was thrown inside a recursive activation, after earlier batches succeeded
C4_Witness ==
    /\ lastCall = "thrown"
    /\ ~sawTooLarge
    /\ thrownDepth >= 2
    /\ Len(queries) >= 1
    /\ pc = "exited"

CeilDiv(n, b) == (n + b - 1) \div b

\* C5: when no request was answered with an error, fetchLogs over n blocks with batch
\* size B has issued exactly ceil(n/B) queries, each at most B blocks long, the first
\* starting at fromBlock, each next one a block after the previous one ended, the last
\* ending at toBlock.
C5_BatchesWithoutRejection ==
    (FetchLogsReturned /\ ~anyError) =>
        /\ Len(queries) = CeilDiv(toBlock - fromBlock + 1, batchSize)
        /\ IsPartition(queries, fromBlock, toBlock)
        /\ \A i \in 1..Len(queries) : queries[i].to - queries[i].from + 1 <= batchSize

\* 12,000 blocks with batch size 5,000: exactly 3 queries
C5_Witness ==
    /\ FetchLogsReturned
    /\ ~anyError
    /\ toBlock - fromBlock + 1 = 12000
    /\ batchSize = DefaultBatchSize
    /\ Len(queries) = 3


-----------------------------------------------------------------------------
(* Claims about aggregation and ranking, checked under SpecRank *)

DelegatorsRanked == ranked /\ report = "delegators"

RECURSIVE SumAmounts(_, _)
\* the amounts of the events of one address, added up
SumAmounts(events, addr) ==
    IF events = <<>> THEN 0
    ELSE (IF Head(events).address = addr THEN Head(events).amount ELSE 0)
         + SumAmounts(Tail(events), addr)

EventAddresses ==
    {allDelegations[i].address : i \in 1..Len(allDelegations)}
        \cup {allUnbonds[i].address : i \in 1..Len(allUnbonds)}

C7_OnlyPositiveStakesRanked ==
    DelegatorsRanked =>
        \A i \in 1..Len(ranking) :
            /\ ranking[i].netStake > 0
            /\ \A j \in 1..Len(ranking[i].validatorDetails) :
                  ranking[i].validatorDetails[j].netStake > 0

\* a ranked delegator that has left one of its two validators, beside an address
\* whose net stake is not positive
C7_Witness ==
    /\ DelegatorsRanked
    /\ \E i \in 1..Len(ranking) :
          /\ Len(ranking[i].validatorDetails) = 1
          /\ \E d \in 1..Len(allDelegations), u \in 1..Len(allUnbonds) :
                /\ allDelegations[d].address = ranking[i].address
                /\ allUnbonds[u].address = ranking[i].address
                /\ allDelegations[d].validatorId = allUnbonds[u].validatorId
                /\ allDelegations[d].validatorId # ranking[i].validatorDetails[1].validatorId
    /\ \E k \in 1..Len(addressStakes) : addressStakes[k].netStake <= 0

\* the field a report ranks by when it ranks by stake or amount
StakeKey == IF report = "delegators" THEN "netStake" ELSE "amount"

\* the field a report's own sort compares
ReportKey ==
    CASE report = "delegators" -> "netStake"
      [] report = "unbonds" -> "amount"
      [] OTHER -> "timestamp"

\* the list a report ranks
Qualifying ==
    CASE report = "delegators" -> SelectSeq(addressStakes, LAMBDA st : st.netStake > 0)
      [] report = "unbonds" -> allUnbonds
      [] OTHER -> allDelegations

Unranked(r) == [f \in DOMAIN r \ {"rank"} |-> r[f]]

\* a < b as strings
StrLess(a, b) ==
    \E i, j \in 1..Len(AddressStrings) :
        AddressStrings[i] = a /\ AddressStrings[j] = b /\ i < j

\* C8 as stated: a ranking by net stake or amount is in descending order, and entries
\* with equal keys are in ascending order of their address strings.
C8_TiesByAddressAscending ==
    (ranked /\ report \in {"delegators", "unbonds"}) =>
        \A i, j \in 1..Len(ranking) :
            i < j =>
                \/ ranking[i][StakeKey] > ranking[j][StakeKey]
                \/ /\ ranking[i][StakeKey] = ranking[j][StakeKey]
                   /\ ~StrLess(ranking[j].address, ranking[i].address)

\* C8 amended: a ranking by net stake or amount is in descending order, and entries
\* with equal keys keep the order in which they arrived (an address arrives with its
\* first event, delegations before unbondings).
C8_SortedDescTiesInArrivalOrder ==
    (ranked /\ report \in {"delegators", "unbonds"}) =>
        \A i, j \in 1..Len(ranking) :
            i < j =>
                \/ ranking[i][StakeKey] > ranking[j][StakeKey]
                \/ /\ ranking[i][StakeKey] = ranking[j][StakeKey]
                   /\ \E p, q \in 1..Len(Qualifying) :
                         /\ p < q
                         /\ Qualifying[p] = Unranked(ranking[i])
                         /\ Qualifying[q] = Unranked(ranking[j])

\* two delegators of equal net stake, the one with the greater address ranked first
C8_Witness ==
    /\ DelegatorsRanked
    /\ Len(ranking) = 2
    /\ ranking[1].netStake = ranking[2].netStake
    /\ ranking[1].address = "0xbb"
    /\ ranking[2].address = "0xaa"

CountAbove(s, field, m) == Cardinality({i \in 1..Len(s) : s[i][field] > m})

LeastOf(s, field) ==
    CHOOSE m \in {s[i][field] : i \in 1..Len(s)} : \A i \in 1..Len(s) : m <= s[i][field]

\* a ranking of min(limit, qualifying) entries of the ranked list, numbered 1..k, that
\* returns every entry whose field is above the least returned one
IsTopOf(field) ==
    /\ Len(ranking) = Min(limit, Len(Qualifying))
    /\ \A i \in 1..Len(ranking) :
          /\ ranking[i].rank = i
          /\ \E p \in 1..Len(Qualifying) : Qualifying[p] = Unranked(ranking[i])
    /\ ranking # <<>> =>
          CountAbove(Qualifying, field, LeastOf(ranking, field))
              = CountAbove(ranking, field, LeastOf(ranking, field))

\* C9 as stated: a top-N ranking returns min(N, qualifying) entries with ranks 1..k,
\* and no entry left out has a larger net stake (or amount) than a returned one.
C9_TopNByStakeOrAmount == ranked => IsTopOf(StakeKey)

\* C9 amended: a top-N ranking returns min(N, qualifying) entries with ranks 1..k, and
\* no entry left out comes before a returned one in the report's own order: net stake
\* for delegators, amount for unbonds, date for recent delegations.
C9_TopNByReportKey == ranked => IsTopOf(ReportKey)

\* the most recent delegation returned and a larger, older one left out
C9_Witness ==
    /\ ranked
    /\ report = "recent"
    /\ limit = 1
    /\ Len(ranking) = 1
    /\ \E p \in 1..Len(allDelegations) :
          /\ allDelegations[p].timestamp < ranking[1].timestamp
          /\ allDelegations[p].amount > ranking[1].amount

-----------------------------------------------------------------------------
(* Claims about the ShareMinted decoders, checked under SpecDecode *)

\* the value of the first slot of the log's data
FirstSlotValue == StripZeros(SubSeq(logData, 3, 2 + SlotChars))

SlotsOf(data) == (Len(data) - 2) \div SlotChars

\* C10: for a data blob of two or more slots, every ShareMinted decoder returns the
\* big-endian value of the first slot, whatever the later slots hold.
C10_AmountIsFirstSlot ==
    (decoder # "none" /\ SlotsOf(logData) >= 2) => amountWei = FirstSlotValue

-----------------------------------------------------------------------------
(* Claims about the batch loops, checked under SpecBatch *)

\* the data holds fewer than 32 bytes
IsShortData(data) == data # Undefined /\ Len(data) < 2 + SlotChars

EventLogs == {processedEvents[k].log : k \in 1..Len(processedEvents)}

\* C11: a log whose data holds fewer than 32 bytes gives no event, and the loop does
\* not raise to the caller.
C11_ShortDataGivesNoEvent ==
    batchReturned =>
        /\ ~batchRaised
        /\ \A i \in 1..Len(rawLogs) : IsShortData(rawLogs[i].data) => i \notin EventLogs

\* C12: the loop never raises to the caller, and it returns exactly one event for
\* every log that is neither undecodable nor older than the cutoff, wherever the
\* undecodable logs sit; a well-formed log is never among the undecodable ones.
C12_BadLogsNeverAbortBatch ==
    /\ ~batchRaised
    /\ batchReturned =>
          /\ EventLogs = (1..Len(rawLogs)) \ (raisedAt \cup skippedAt)
          /\ Len(processedEvents) = Cardinality(EventLogs)
          /\ \A i \in 1..Len(rawLogs) :
                (rawLogs[i].topics /\ rawLogs[i].data = TwoSlotData) => i \notin raisedAt

\* a log with a malformed slot between two logs that are decoded
C12_Witness ==
    /\ batchReturned
    /\ Len(rawLogs) = 3
    /\ rawLogs[2].data = MalformedData
    /\ raisedAt = {2}
    /\ EventLogs = {1, 3}

-----------------------------------------------------------------------------
(* Claims about address classification, checked under SpecClassify *)

\* C13: on one instance, two classify calls whose addresses differ only in letter
\* case return the same category, whether answered from the cache or not, and an
\* address of the static exchange set is classified as exchange in any letter case.
C13_ClassifyIgnoresCase ==
    /\ \A i, j \in 1..Len(calls) :
          ToLowerCase(calls[i].address) = ToLowerCase(calls[j].address)
              => calls[i].type = calls[j].type
    /\ \A i \in 1..Len(calls) :
          ToLowerCase(calls[i].address) \in KnownExchangeAddresses
              => calls[i].type = "exchange"

\* the exchange address in mixed case on a first call, then in upper case from the
\* cache
C13_Witness ==
    /\ Len(calls) = 2
    /\ calls[1].address = "0x5E3346444010135322268a0CA24B70E5b1d0D52A"
    /\ ~calls[1].cached
    /\ calls[2].address = "0X5E3346444010135322268A0CA24B70E5B1D0D52A"
    /\ calls[2].cached
    /\ calls[2].type = "exchange"

MatchesNoStaticSet(address) ==
    ToLowerCase(address) \notin KnownExchangeAddresses \cup KnownDefiAddresses

\* C14: whatever the exclude options, filterDelegatorAddresses classifies an address
\* that is in none of the static sets as 'individual' and puts it in
\* individualDelegators.
C14_UnmatchedAreIndividual ==
    filterResults # NoResults =>
        \A k \in 1..Len(filterResults) :
            MatchesNoStaticSet(filterResults[k].address) =>
                /\ filterResults[k].type = "individual"
                /\ filterResults[k].list = "individualDelegators"

\* an unmatched address beside an exchange address that is filtered out
C14_Witness ==
    /\ filterResults # NoResults
    /\ filterOptions.excludeExchanges
    /\ ~filterOptions.excludeDefi
    /\ \E k, l \in 1..Len(filterResults) :
          /\ MatchesNoStaticSet(filterResults[k].address)
          /\ filterResults[k].list = "individualDelegators"
          /\ filterResults[l].list = "exchanges"

-----------------------------------------------------------------------------
(* Claims about concurrency, checked under SpecViz *)

\* the requests to one endpoint that are sent and not answered
Outstanding(endpoint) == {i \in 1..vizCount : vizTasks[i] = endpoint}

\* C15: at every moment at most one request to any given endpoint is outstanding.
C15_OneOutstandingPerEndpoint ==
    \A endpoint \in InFlight : Cardinality(Outstanding(endpoint)) <= 1

-----------------------------------------------------------------------------
(* Claims about the API key and the start block, checked under SpecLookup *)

\* C16: without an Etherscan API key the operation returns an empty result, and no
\* network request was issued before the missing key was detected.
C16_NoKeyNoRequest ==
    (~etherscanApiKey /\ awaiting = "returned") => (fetched = "empty" /\ requests = <<>>)

\* C17: when the block-by-timestamp lookup failed, by a thrown error or by its status
\* flag, the log query starts from the extrapolated block
\* max(1, head - floor(elapsed / 12)), never from block 0.
C17_FailedLookupExtrapolates ==
    (lookup \in {"status", "thrown"} /\ startBlock # <<>>) =>
        (startBlock = <<Extrapolated(currentBlock, elapsedSeconds)>> /\ startBlock # <<0>>)

-----------------------------------------------------------------------------
(* Claims about the commands' exit codes, checked under SpecCli *)

\* a fetch the command depends on failed unrecoverably: the validator list request,
\* or every unbond request that was sent
UnrecoverableFetchFailure ==
    \/ "validators" \in failed
    \/ unbondRequests > 0 /\ unbondFailures = unbondRequests

\* C18: a biggest-unbonds command ends with exit code 0 only when its fetches
\* succeeded; after an unrecoverable fetch failure it ends with a non-zero code.
C18_ExitZeroOnlyOnSuccess ==
    (command \notin Analyses /\ step = "end" /\ UnrecoverableFetchFailure) =>
        (errorPrinted /\ exitStatus # 0)

\* C19: when none of the operations it calls failed, the analysis has listed the
\* individual delegator addresses, printed its completion message and ended with exit
\* code 0 (runCompleteAnalysis: without raising).
C19_AnalyzeCompletes ==
    (command \in Analyses /\ step = "end" /\ failed = {}) =>
        /\ listed
        /\ completed
        /\ ~raised
        /\ command = "analyze" => exitStatus = 0

-----------------------------------------------------------------------------
(* Claims about formatUnits, checked under SpecUnits *)

\* the place of the decimal point in a string, 0 if it has none
PointAt(str) ==
    LET points == {i \in 1..Len(str) : str[i] = "."}
    IN IF points = {} THEN 0 ELSE CHOOSE i \in points : TRUE

IntegerPart(str) == IF PointAt(str) = 0 THEN str ELSE SubSeq(str, 1, PointAt(str) - 1)

FractionalPart(str) ==
    IF PointAt(str) = 0 THEN <<>> ELSE SubSeq(str, PointAt(str) + 1, Len(str))

\* str.padEnd(targetLength, '0')
PadEnd(str, targetLength) ==
    IF Len(str) >= targetLength THEN str
    ELSE str \o [i \in 1..(targetLength - Len(str)) |-> "0"]

\* (integer part) * 10^18 + (fractional part right-padded with zeros to 18 digits)
ParsedBack(str) == StripZeros(IntegerPart(str) \o PadEnd(FractionalPart(str), Decimals))

\* 2^53, the first integer after which doubles skip values
TwoTo53 == <<"9", "0", "0", "7", "1", "9", "9", "2", "5", "4", "7", "4", "0", "9", "9", "2">>

\* C20: for a non-negative value, the string formatUnits(value, 18) returns parses
\* back to the value exactly, its fractional part has at most 18 digits and no
\* trailing zero, and no other non-negative value gives the same string.
C20_FormatUnitsRoundTrip ==
    (~negative /\ formatted # <<>>) =>
        /\ ParsedBack(formatted) = val
        /\ Len(FractionalPart(formatted)) <= Decimals
        /\ PointAt(formatted) # 0 => formatted[Len(formatted)] # "0"
        /\ \A other \in Values :
              FormatUnits(FALSE, other, Decimals) = formatted => other = val

\* a value above 2^53 with a fraction that needs the left padding has been formatted
C20_Witness ==
    /\ ~negative
    /\ Len(val) > Len(TwoTo53)
    /\ formatted # <<>>
    /\ PointAt(formatted) # 0
    /\ FractionalPart(formatted)[1] = "0"

-----------------------------------------------------------------------------
(* Claims about the filtered analysis, checked under SpecAnalysis *)

\* the address is in the static exchange or DeFi set, in whatever letter case
InStaticSets(address) ==
    ToLowerCase(address) \in KnownExchangeAddresses \cup KnownDefiAddresses

\* the events of the list whose user is not in the static sets
NotStatic(events) == SelectSeq(events, LAMBDA e : ~InStaticSets(e.user))

\* C21: with default options no address of the static exchange or DeFi sets is among
\* the individual delegators, and the filtered totals are the totals of the events of
\* the other addresses: no event of a static address contributes.
C21_StaticAddressesExcluded ==
    (trackerOptions = DefaultOptions /\ analysis # NoAnalysis) =>
        /\ \A i \in 1..Len(filteredDelegators) : ~InStaticSets(filteredDelegators[i])
        /\ analysis.totalUnbonded = TotalOf(NotStatic(unbondData))
        /\ analysis.totalDelegated = TotalOf(NotStatic(delegationData))
        /\ analysis.netChange =
              TotalOf(NotStatic(delegationData)) - TotalOf(NotStatic(unbondData))
        /\ \A k \in analysis.addressUnbonds \cup analysis.addressDelegations :
              ~InStaticSets(k[1])

\* an exchange reported in mixed case has unbonded beside an individual delegator, and
\* the analysis is done
C21_Witness ==
    /\ trackerOptions = DefaultOptions
    /\ analysis # NoAnalysis
    /\ \E i \in 1..Len(unbondData) :
          unbondData[i].user = "0x5E3346444010135322268a0CA24B70E5b1d0D52A"
    /\ \E i \in 1..Len(delegationData) :
          delegationData[i].user = "0x5e3346444010135322268a0ca24b70e5b1d0d52a"
    /\ analysis.totalUnbonded > 0

-----------------------------------------------------------------------------
(* Claims about the fund-flow options, checked under SpecFlow *)

\* the report holds a movement of this address and amount
Reported(tx) ==
    \E i \in 1..Len(flowReport.movements) :
        /\ flowReport.movements[i].address = tx.address
        /\ flowReport.movements[i].amount = tx.amount

\* C22: --threshold T is the minimum amount tracked: the flow report holds every
\* outgoing transfer of at least T POL from an analysed address and none below T.
C22_ThresholdIsMinimumTracked ==
    flowReport # NoReport =>
        /\ \A i \in 1..Len(transfers) :
              (transfers[i].outgoing /\ transfers[i].amount >= thresholdOption)
                  => Reported(transfers[i])
        /\ \A i \in 1..Len(flowReport.movements) :
              flowReport.movements[i].amount >= thresholdOption

\* C23: in the combined command flows are tracked for exactly the first min(N, k)
\* unbond addresses, and addressesAnalyzed is the number of addresses tracked.
C23_MaxAddressesAnalysed ==
    (flowCommand = "combined" /\ flowReport # NoReport) =>
        /\ tracked = 1..Min(maxAddressesOption, addressCount)
        /\ flowReport.addressesAnalyzed = Cardinality(tracked)

-----------------------------------------------------------------------------
(* Claims about the delegation summary, checked under SpecSummary *)

\* the distinct delegator addresses among the fetched events
SummaryDelegators == {summaryEvents[i].user : i \in 1..Len(summaryEvents)}

\* C24: getDelegationSummary returns a record consistent with the fetched events:
\* delegationEvents is their number, totalDelegated the sum of their amounts,
\* uniqueDelegators the number of distinct delegators, and events the list itself.
C24_SummaryRecordMatchesEvents ==
    summaryStep \in {"returned", "tested"} =>
        /\ HasProperty(summary, "delegationEvents")
        /\ HasProperty(summary, "totalDelegated")
        /\ HasProperty(summary, "uniqueDelegators")
        /\ HasProperty(summary, "events")
        /\ summary.delegationEvents = Len(summaryEvents)
        /\ summary.totalDelegated = TotalDelegatedWei(summaryEvents)
        /\ summary.uniqueDelegators = Cardinality(SummaryDelegators)
        /\ summary.events = summaryEvents

-----------------------------------------------------------------------------
(* Claim about the termination of fetchLogs, checked under SpecFetch *)

\* the number of blocks of the range main hands to fetchLogs
RangeSize == toBlock - fromBlock + 1

\* the number of blocks of an activation's range, and of the batch it is working on
FrameBlocks(f) == f.toBlock - f.fromBlock + 1
BatchBlocks(f) == CurrentTo(f) - f.currentFrom + 1

\* C25: fetchLogs terminates for every range and every provider behaviour, a provider
\* that rejects a single-block range included: every recursive call is on a range
\* strictly smaller than the batch that was rejected, so the recursion depth is at most
\* the range size plus one, and no more queries succeed than the range has blocks.
C25_FetchLogsBoundedByRange ==
    /\ \A i \in 2..Len(stack) : FrameBlocks(stack[i]) < BatchBlocks(stack[i - 1])
    /\ Len(stack) <= RangeSize + 1
    /\ Len(queries) <= RangeSize

-----------------------------------------------------------------------------
(* Claim about the form of addresses, checked under SpecAnalysis *)

\* C26: every address carried by a produced event or per-address total is the
\* lower-cased hex form, so a delegation record and an unbond record of one account
\* share the same key in the per-address aggregation.
C26_AddressesLowerCased ==
    analysis # NoAnalysis =>
        /\ \A i \in 1..Len(unbondData) :
              unbondData[i].user = ToLowerCase(unbondData[i].user)
        /\ \A k \in analysis.addressUnbonds \cup analysis.addressDelegations :
              k[1] = ToLowerCase(k[1])
        /\ \A ku \in analysis.addressUnbonds, kd \in analysis.addressDelegations :
              ToLowerCase(ku[1]) = ToLowerCase(kd[1]) => ku[1] = kd[1]

-----------------------------------------------------------------------------
(* Claim about the purity of classification, checked under SpecClassify *)

\* the category a fresh instance returns for the address when the external service
\* is not asked or fails: the only category that can be a function of the address
\* alone, since the service may fail for any address
CategoryOfAddress(address) ==
    IF classifier = "DelegatorFilter"
    THEN ClassifyBasic({}, address)[1].type
    ELSE ClassifyFlow({}, address, FALSE, "error")[1].type

\* C27: the category returned for an address depends only on the address string, not
\* on the addresses classified earlier nor on whether the external classification
\* service answered or failed, and repeated calls in one run return the same result.
C27_CategoryDependsOnAddressOnly ==
    /\ \A i \in 1..Len(calls) : calls[i].type = CategoryOfAddress(calls[i].address)
    /\ \A i, j \in 1..Len(calls) :
          calls[i].address = calls[j].address => calls[i].type = calls[j].type

-----------------------------------------------------------------------------
(* Claim about the filter's statistics, checked under SpecClassify *)

\* the number of entries the filter pushed to the list, and the number it classified
\* in the category
PushedTo(list) ==
    Cardinality({k \in 1..Len(filterResults) : filterResults[k].list = list})
ClassifiedAs(type) ==
    Cardinality({k \in 1..Len(filterResults) : filterResults[k].type = type})

\* C28: when filterDelegatorAddresses returns, statistics.individual is the length of
\* individualDelegators, statistics.exchanges, .defi and .institutional are the
\* numbers of input addresses classified in those categories, and the category counts
\* sum to statistics.total, the number of input addresses.
C28_StatisticsAgreeWithLists ==
    filterResults # NoResults =>
        /\ filterStatistics.total = Len(filterResults)
        /\ filterStatistics.individual = PushedTo("individualDelegators")
        /\ filterStatistics.exchanges = ClassifiedAs("exchange")
        /\ filterStatistics.defi = ClassifiedAs("defi")
        /\ filterStatistics.institutional = ClassifiedAs("institutional")
        /\ filterStatistics.individual + filterStatistics.exchanges
              + filterStatistics.defi + filterStatistics.institutional
              + filterStatistics.unknown = filterStatistics.total

-----------------------------------------------------------------------------
(* Claim about the per-validator breakdown, checked under SpecRank *)

RECURSIVE SumNetStakes(_)
SumNetStakes(details) ==
    IF details = <<>> THEN 0
    ELSE Head(details).netStake + SumNetStakes(Tail(details))

RECURSIVE SumAt(_, _, _)
\* the amounts of the events of one address at one validator, added up
SumAt(events, addr, v) ==
    IF events = <<>> THEN 0
    ELSE (IF Head(events).address = addr /\ Head(events).validatorId = v
          THEN Head(events).amount ELSE 0)
         + SumAt(Tail(events), addr, v)

\* delegated - unbonded of one address at one validator
NetAt(addr, v) == SumAt(allDelegations, addr, v) - SumAt(allUnbonds, addr, v)

\* the validators the address has an event at
ValidatorIdsOf(addr) ==
    {allDelegations[k].validatorId :
        k \in {n \in 1..Len(allDelegations) : allDelegations[n].address = addr}}
    \cup {allUnbonds[k].validatorId :
            k \in {n \in 1..Len(allUnbonds) : allUnbonds[n].address = addr}}

RECURSIVE DeficitOver(_, _)
\* what the validators with a negative net stake take from the address's net stake
DeficitOver(addr, ids) ==
    IF ids = {} THEN 0
    ELSE LET v == CHOOSE x \in ids : TRUE
         IN (IF NetAt(addr, v) < 0 THEN 0 - NetAt(addr, v) ELSE 0)
            + DeficitOver(addr, ids \ {v})

-----------------------------------------------------------------------------
(* Claim about the time window, checked under SpecWindow *)

\* C30: every delegation event of a time-windowed result has a block timestamp at or
\* after the requested cutoff, and the timestamp reported for it is that of its
\* block, also when the timestamp had to be looked up and the lookup failed, and when
\* the start block of the window could not be resolved.
C30_EventsInsideWindow ==
    windowStep = "returned" =>
        \A k \in 1..Len(windowEvents) :
            /\ windowLogs[windowEvents[k].log].blockTime >= WindowCutoff
            /\ windowEvents[k].timestamp = windowLogs[windowEvents[k].log].blockTime

====
